---- MODULE Spec2Model ----
(***************************************************************************)
(* Ingestion / merge / transform / analytics pipeline of the Automated     *)
(* Insight Engine (backend/pipeline).  Each group of operations has its    *)
(* own specification over its own group of variables; the variables of the *)
(* other groups stay idle.                                                 *)
(*                                                                         *)
(*   SpecNormalize : normalize_column_name (ingest.py)                     *)
(*   SpecMerge     : merge_dataframes (ingest.py)                          *)
(*   SpecPeriod    : compute_period_comparison (kpis.py)                   *)
(*   SpecAnomaly   : detect_anomalies (kpis.py)                            *)
(*   SpecDerived   : compute_derived_metrics (transform.py)                *)
(*   SpecPipeline  : ingest_data, transform_data, compute_kpis as           *)
(*                   run_pipeline calls them (main_simple.py), with no      *)
(*                   API key configured (regex extraction)                  *)
(*   SpecExtract   : process_unstructured_files and                        *)
(*                   extract_structured_data_with_llm (unstructured.py),   *)
(*                   with and without the text-understanding service       *)
(*   SpecReports   : two report generations for different upload ids,      *)
(*                   generate_report and run_pipeline (main_simple.py),    *)
(*                   interleaved at the reads and writes of reports.json   *)
(*   SpecRun       : one report generation, scheduled fairly               *)
(*   SpecKpis      : compute_kpis on a transformed table (kpis.py)         *)
(*   SpecRerun     : the pipeline steps run twice on one upload            *)
(*   SpecCombine   : merge_structured_and_unstructured (unstructured.py)   *)
(*   SpecOwn       : the table objects of one pipeline run and what is     *)
(*                   assigned to them in place                             *)
(*   SpecFill      : handle_missing_values (transform.py)                  *)
(*   SpecInngest   : one report generation under report_pipeline           *)
(*                   (inngest_client.py, main.py)                          *)
(*   SpecConcurrent: SpecReports with every step scheduled fairly          *)
(***************************************************************************)
EXTENDS Integers, Sequences, FiniteSets, TLC

VARIABLES
    \* ---- normalize_column_name ----
    npc,            \* "input" | "once" | "twice"
    col,            \* the raw column label, a sequence of characters
    normalized,     \* normalize_column_name(col)            (ingest.py:234)
    renormalized,   \* normalize_column_name(normalized)     (ingest.py:279)
    \* ---- merge_dataframes ----
    mpc,            \* "input" | "done"
    dfs,            \* the list of tables handed to merge_dataframes
    merge_result,   \* the table returned, or the error raised
    merge_log,      \* the path logged at ingest.py:145 / 149
    \* ---- the analytics and transform functions, each on a table df ----
    fpc,            \* "input" | "done"
    df,             \* the table handed to the function
    comparisons,    \* what compute_period_comparison returns
    anomalies,      \* what detect_anomalies returns
    derived_df,     \* what compute_derived_metrics returns
    \* ---- one run of the pipeline on an upload directory ----
    ppc,              \* "upload" | "ingested" | "transformed" | "kpis" | "failed"
    upload,           \* the upload directory: its files by extension
    structured_df,    \* ingest_data: the merged structured table (ingest.py:231-237)
    unstructured_df,  \* ingest_data: the table of the unstructured rows (ingest.py:255)
    merged_df,        \* ingest_data: the table handed to to_parquet (ingest.py:279)
    ingested,         \* what ingest_data returns, or the error it raises
    ingested_file,    \* ingested_<upload_id>.parquet, <<>> while not files_written
    transformed,      \* what transform_data returns
    transformed_file, \* transformed_data.parquet, <<>> while not files_written
    kpis,             \* what compute_kpis returns
    \* ---- text extraction: the process environment, the service, a batch ----
    api_key,          \* os.getenv('OPENAI_API_KEY') is set       (unstructured.py:244)
    OPENAI_AVAILABLE, \* the client library could be imported      (unstructured.py:32-36)
    service,          \* what the service call does, by text        (unstructured.py:289-300)
    xpc,              \* "input" | "done" | "extracted"
    batch,            \* the files handed to process_unstructured_files
    batch_result,     \* what process_unstructured_files returns
    extract_text,     \* the text handed to extract_structured_data_with_llm
    extract_result,   \* what extract_structured_data_with_llm returns
    row_df,           \* what convert_unstructured_to_dataframe returns
    \* ---- report generations: generate_report and run_pipeline ----
    reports,          \* reports.json: report id -> entry        (main_simple.py:52)
    rpc,              \* by run: where generate_report / run_pipeline stands
    metadata,         \* by run: the local copy that load_reports_metadata gave
    run_upload,       \* by run: the upload directory of its upload id
    run_outcome,      \* by run: what steps 1 to 6 of run_pipeline came to
    files_written,    \* the files written: [path, by]
    attempt,          \* by run: the failed attempts of report_pipeline (inngest_client.py:72)
    \* ---- the Python process and a second run on the same upload ----
    set_order,        \* the order in which this process iterates a set of
                      \* strings, against the order they were inserted in:
                      \* "inserted" | "reversed" (str hashes are salted per
                      \* process)
    first_run,        \* the tables and the KPI Bundle of the first run
    \* ---- the table objects of one run of ingest_data and transform_data ----
    opc,              \* where ingest_data / transform_data stands
    own_dir,          \* the upload directory
    heap,             \* the table objects, by id: each as it is now
    born,             \* the table objects, by id: each as its producer returned it
    ref               \* the names of the code: the id each is bound to, 0 for none

normVars == <<npc, col, normalized, renormalized>>
mergeVars == <<mpc, dfs, merge_result, merge_log>>

fnVars == <<fpc, df, comparisons, anomalies, derived_df>>

pipeVars == <<ppc, upload, structured_df, unstructured_df, merged_df, ingested,
              ingested_file, transformed, transformed_file, kpis>>

extractVars == <<api_key, OPENAI_AVAILABLE, service, xpc, batch, batch_result,
                 extract_text, extract_result, row_df>>

runVars == <<reports, rpc, metadata, run_upload, run_outcome, files_written, attempt>>

procVars == <<set_order, first_run>>

ownVars == <<opc, own_dir, heap, born, ref>>

vars == <<normVars, mergeVars, fnVars, pipeVars, extractVars, runVars, procVars, ownVars>>

\* what each specification leaves alone
notNorm == <<mergeVars, fnVars, pipeVars, extractVars, runVars, procVars, ownVars>>
notMerge == <<normVars, fnVars, pipeVars, extractVars, runVars, procVars, ownVars>>
notFn == <<normVars, mergeVars, pipeVars, extractVars, runVars, procVars, ownVars>>
notPipe == <<normVars, mergeVars, fnVars, extractVars, runVars, procVars, ownVars>>
notExtract == <<normVars, mergeVars, fnVars, pipeVars, runVars, procVars, ownVars>>
\* a report generation leaves the process environment and the service as
\* they are
notRun == <<normVars, mergeVars, fnVars, pipeVars, extractVars, procVars, ownVars>>
notOwn == <<normVars, mergeVars, fnVars, pipeVars, extractVars, runVars, procVars>>

\* the variables of a group that the running specification does not use
NormIdle ==
    /\ npc = "idle"
    /\ col = <<>>
    /\ normalized = <<>>
    /\ renormalized = <<>>

MergeIdle ==
    /\ mpc = "idle"
    /\ dfs = <<>>
    /\ merge_result = <<>>
    /\ merge_log = ""

FnIdle ==
    /\ fpc = "idle"
    /\ df = <<>>
    /\ comparisons = <<>>
    /\ anomalies = <<>>
    /\ derived_df = <<>>

PipeIdle ==
    /\ ppc = "idle"
    /\ upload = <<>>
    /\ structured_df = <<>>
    /\ unstructured_df = <<>>
    /\ merged_df = <<>>
    /\ ingested = <<>>
    /\ ingested_file = <<>>
    /\ transformed = <<>>
    /\ transformed_file = <<>>
    /\ kpis = <<>>

\* no API key and no client library: text extraction takes the regex path
ExtractIdle ==
    /\ api_key = FALSE
    /\ OPENAI_AVAILABLE = FALSE
    /\ service = <<>>
    /\ xpc = "idle"
    /\ batch = <<>>
    /\ batch_result = <<>>
    /\ extract_text = <<>>
    /\ extract_result = <<>>
    /\ row_df = <<>>

RunIdle ==
    /\ reports = <<>>
    /\ rpc = <<>>
    /\ metadata = <<>>
    /\ run_upload = <<>>
    /\ run_outcome = <<>>
    /\ files_written = {}
    /\ attempt = <<>>

\* one process, one run
ProcIdle ==
    /\ set_order = "inserted"
    /\ first_run = <<>>

OwnIdle ==
    /\ opc = "idle"
    /\ own_dir = <<>>
    /\ heap = <<>>
    /\ born = <<>>
    /\ ref = <<>>

NormAlone == MergeIdle /\ FnIdle /\ PipeIdle /\ ExtractIdle /\ RunIdle /\ ProcIdle /\ OwnIdle
MergeAlone == NormIdle /\ FnIdle /\ PipeIdle /\ ExtractIdle /\ RunIdle /\ ProcIdle /\ OwnIdle
FnAlone == NormIdle /\ MergeIdle /\ PipeIdle /\ ExtractIdle /\ RunIdle /\ ProcIdle /\ OwnIdle
PipeAlone == NormIdle /\ MergeIdle /\ FnIdle /\ ExtractIdle /\ RunIdle /\ ProcIdle /\ OwnIdle
ExtractAlone == NormIdle /\ MergeIdle /\ FnIdle /\ PipeIdle /\ RunIdle /\ ProcIdle /\ OwnIdle
OwnAlone ==
    NormIdle /\ MergeIdle /\ FnIdle /\ PipeIdle /\ ExtractIdle /\ RunIdle /\ ProcIdle
RunAlone == NormIdle /\ MergeIdle /\ FnIdle /\ PipeIdle /\ ProcIdle /\ OwnIdle

(***************************************************************************)
(* Strings are sequences of one-character strings.                         *)
(***************************************************************************)
MaxColLen == 4

SeqsUpTo(S, n) == UNION {[1..k -> S] : k \in 0..n}

UpperLetters == <<"A","B","C","D","E","F","G","H","I","J","K","L","M",
                  "N","O","P","Q","R","S","T","U","V","W","X","Y","Z">>
LowerLetters == <<"a","b","c","d","e","f","g","h","i","j","k","l","m",
                  "n","o","p","q","r","s","t","u","v","w","x","y","z">>
Digits == {"0","1","2","3","4","5","6","7","8","9"}
Whitespace == {" ", "\t", "\n"}

Range(f) == {f[i] : i \in DOMAIN f}

\* str.lower() on one character
LowerChar(c) ==
    IF c \in Range(UpperLetters)
    THEN LowerLetters[CHOOSE i \in 1..26 : UpperLetters[i] = c]
    ELSE c

\* str.lower()
Lower(s) == [i \in 1..Len(s) |-> LowerChar(s[i])]

RECURSIVE LStrip(_, _)
LStrip(s, chars) ==
    IF s # <<>> /\ Head(s) \in chars THEN LStrip(Tail(s), chars) ELSE s

RECURSIVE RStrip(_, _)
RStrip(s, chars) ==
    IF s # <<>> /\ s[Len(s)] \in chars
    THEN RStrip(SubSeq(s, 1, Len(s) - 1), chars)
    ELSE s

\* str.strip() / str.strip(chars)
Strip(s, chars) == RStrip(LStrip(s, chars), chars)

\* re.sub(r'[class]+', '_', s): every maximal run of class characters
\* becomes one underscore
RECURSIVE SubRuns(_, _)
SubRuns(s, class) ==
    IF s = <<>> THEN <<>>
    ELSE IF Head(s) \in class
         THEN <<"_">> \o SubRuns(LStrip(Tail(s), class), class)
         ELSE <<Head(s)>> \o SubRuns(Tail(s), class)

\* re.sub(r'[^a-z0-9_]', '', s)
IsIdentChar(c) == c \in Range(LowerLetters) \cup Digits \cup {"_"}
RemoveNonIdent(s) == SelectSeq(s, IsIdentChar)

\* a slip in the order of the substitutions: the underscores are stripped
\* before the non-identifier characters are removed
normalize_strip_first(c) ==
    SubRuns(RemoveNonIdent(Strip(SubRuns(Strip(Lower(c), Whitespace),
                                         Whitespace \cup {"-", "."}),
                                 {"_"})),
            {"_"})

normalize_column_name(c) ==
    LET s1 == Strip(Lower(c), Whitespace)                  \* line 45
        s2 == SubRuns(s1, Whitespace \cup {"-", "."})      \* line 47
        s3 == RemoveNonIdent(s2)                           \* line 49
        s4 == SubRuns(s3, {"_"})                           \* line 51
    IN  Strip(s4, {"_"})                                   \* line 53

(***************************************************************************)
(* SpecNormalize: a raw label is normalized after the structured merge     *)
(* (ingest.py:234) and normalized again after the final merge              *)
(* (ingest.py:279).                                                        *)
(***************************************************************************)
LabelChars == {"A", "a", "1", " ", "-", "_", "!"}

NormInit ==
    /\ NormAlone
    /\ npc = "input"
    /\ col \in SeqsUpTo(LabelChars, MaxColLen)
    /\ normalized = <<>>
    /\ renormalized = <<>>

NormalizeFirst ==
    /\ npc = "input"
    /\ normalized' = normalize_column_name(col)
    /\ npc' = "once"
    /\ UNCHANGED <<col, renormalized, notNorm>>

NormalizeSecond ==
    /\ npc = "once"
    /\ renormalized' = normalize_column_name(normalized)
    /\ npc' = "twice"
    /\ UNCHANGED <<col, normalized, notNorm>>

NormNext == NormalizeFirst \/ NormalizeSecond

SpecNormalize == NormInit /\ [][NormNext]_vars

TotalSpendRaw == <<" ","T","o","t","a","l"," ","S","p","e","n","d","!"," ">>
TotalSpendNorm == <<"t","o","t","a","l","_","s","p","e","n","d">>

\* C1: normalize_column_name is idempotent: normalizing a normalized label
\* gives the same label back, for every label; and " Total Spend! "
\* normalizes to "total_spend".
C1_NormalizeIdempotent ==
    /\ npc \in {"once", "twice"} =>
            normalize_column_name(normalized) = normalized
    /\ npc = "twice" => renormalized = normalized
    /\ normalize_column_name(TotalSpendRaw) = TotalSpendNorm

\* a label that the first normalization changed, normalized twice
C1_Witness ==
    /\ npc = "twice"
    /\ normalized # col
    /\ Len(normalized) >= 3
    /\ \E i \in 1..Len(col) : col[i] \in {"-", "!", " "}

(***************************************************************************)
(* Tables (pandas DataFrames).  A table holds its column labels in order,  *)
(* one dtype per column and its rows; a row holds one cell per column, by  *)
(* position.  A label is a sequence of characters.  A cell is               *)
(*     NaN           a missing value (NaN, None, NaT),                     *)
(*     <<n>>         the number n, or the day n in a datetime column,      *)
(*     <<"d", n>>    a text that spells the date of day n,                 *)
(*     <<"s", w>>    any other text w,                                     *)
(*     <<"inf", s>>  the float infinity of sign s.                         *)
(* An operation that raises returns [raise |-> message].                   *)
(***************************************************************************)
NaN == <<>>
Val(v) == <<v>>
DateText(n) == <<"d", n>>
Text(w) == <<"s", w>>
\* the float infinity, with its sign
Inf(sign) == <<"inf", sign>>
IsInf(x) == Len(x) = 2 /\ x[1] = "inf"
IsNumber(x) == Len(x) = 1
IsText(x) == Len(x) = 2 /\ x[1] \in {"d", "s"}

\* pd.DataFrame()
EmptyFrame == [cols |-> <<>>, dtypes |-> <<>>, rows |-> <<>>]

Raise(e) == [raise |-> e]
IsRaise(x) == "raise" \in DOMAIN x

NRows(t) == Len(t.rows)
NCols(t) == Len(t.cols)
ColSet(t) == Range(t.cols)
\* position of the (first) column labelled c_
Idx(t, c_) == CHOOSE i \in 1..Len(t.cols) : t.cols[i] = c_
\* DataFrame.empty: any axis of length 0
IsEmpty(t) == Len(t.rows) = 0 \/ Len(t.cols) = 0

RECURSIVE FlattenSeq(_)
FlattenSeq(ss) == IF ss = <<>> THEN <<>> ELSE Head(ss) \o FlattenSeq(Tail(ss))

RECURSIVE SumSeq(_)
SumSeq(ns) == IF ns = <<>> THEN 0 ELSE Head(ns) + SumSeq(Tail(ns))

MaxOf(S) == CHOOSE m \in S : \A x \in S : x <= m

EndsWith(s_, suffix) ==
    /\ Len(s_) >= Len(suffix)
    /\ SubSeq(s_, Len(s_) - Len(suffix) + 1, Len(s_)) = suffix

col_id == <<"i","d">>
col_date == <<"d","a","t","e">>
col_timestamp == <<"t","i","m","e","s","t","a","m","p">>
col_campaign_id == <<"c","a","m","p","a","i","g","n","_","i","d">>
col_location_id == <<"l","o","c","a","t","i","o","n","_","i","d">>
col_user_id == <<"u","s","e","r","_","i","d">>
col_customer_id == <<"c","u","s","t","o","m","e","r","_","i","d">>
col_region == <<"r","e","g","i","o","n">>
col_category == <<"c","a","t","e","g","o","r","y">>
col_a == <<"a">>
col_b == <<"b">>
col_c == <<"c">>
col_spend == <<"s","p","e","n","d">>
col_clicks == <<"c","l","i","c","k","s">>
col_impressions == <<"i","m","p","r","e","s","s","i","o","n","s">>
col_conversions == <<"c","o","n","v","e","r","s","i","o","n","s">>
col_revenue == <<"r","e","v","e","n","u","e">>
col_visits == <<"v","i","s","i","t","s">>
col_foot_traffic == <<"f","o","o","t","_","t","r","a","f","f","i","c">>
col_unique_visitors == <<"u","n","i","q","u","e","_","v","i","s","i","t","o","r","s">>
col_engagements == <<"e","n","g","a","g","e","m","e","n","t","s">>
col_ctr == <<"c","t","r">>
col_cpc == <<"c","p","c">>
col_cpm == <<"c","p","m">>
col_conversion_rate == <<"c","o","n","v","e","r","s","i","o","n","_","r","a","t","e">>
col_cpa == <<"c","p","a">>
col_roas == <<"r","o","a","s">>
col_engagement_rate == <<"e","n","g","a","g","e","m","e","n","t","_","r","a","t","e">>
col_pages_per_visit == <<"p","a","g","e","s","_","p","e","r","_","v","i","s","i","t">>
suffix_dup == <<"_","d","u","p">>

\* the labels of a list of tables, each once, in order of first appearance
RECURSIVE UnionCols(_, _)
UnionCols(acc, tables) ==
    IF tables = <<>> THEN acc
    ELSE LET new == SelectSeq(Head(tables).cols, LAMBDA x : x \notin Range(acc))
         IN  UnionCols(acc \o new, Tail(tables))

\* the rows of t laid out on the labels cs, NaN where t has no such column
Reindex(t, cs) ==
    [r \in 1..Len(t.rows) |->
        [j \in 1..Len(cs) |->
            IF cs[j] \in ColSet(t) THEN t.rows[r][Idx(t, cs[j])] ELSE NaN]]

ConcatDtype(tables, c_) ==
    LET types == {tables[i].dtypes[Idx(tables[i], c_)] :
                    i \in {k \in 1..Len(tables) : c_ \in ColSet(tables[k])}}
    IN  IF Cardinality(types) = 1 THEN CHOOSE x \in types : TRUE ELSE "object"

\* pd.concat(tables, join='inner'): only the columns every table has
pd_concat_inner(tables) ==
    LET cs == SelectSeq(UnionCols(<<>>, tables),
                        LAMBDA x : \A i \in 1..Len(tables) : x \in ColSet(tables[i]))
    IN  [cols   |-> cs,
         dtypes |-> [j \in 1..Len(cs) |-> ConcatDtype(tables, cs[j])],
         rows   |-> FlattenSeq([i \in 1..Len(tables) |-> Reindex(tables[i], cs)])]

\* pd.concat(tables, ignore_index=True): the rows of every table in turn,
\* on the union of the columns
pd_concat(tables) ==
    LET cs == UnionCols(<<>>, tables)
    IN  [cols   |-> cs,
         dtypes |-> [j \in 1..Len(cs) |-> ConcatDtype(tables, cs[j])],
         rows   |-> FlattenSeq([i \in 1..Len(tables) |-> Reindex(tables[i], cs)])]

\* the order pandas sorts join keys in: NaN last
CellLess(x, y) == x # NaN /\ (y = NaN \/ x[Len(x)] < y[Len(y)])

RECURSIVE KeyLess(_, _)
KeyLess(k1, k2) ==
    /\ k1 # <<>>
    /\ \/ CellLess(Head(k1), Head(k2))
       \/ Head(k1) = Head(k2) /\ KeyLess(Tail(k1), Tail(k2))

RECURSIVE SortedKeys(_)
SortedKeys(S) ==
    IF S = {} THEN <<>>
    ELSE LET m == CHOOSE x \in S : \A y \in S \ {x} : KeyLess(x, y)
         IN  <<m>> \o SortedKeys(S \ {m})

KeyOf(t, row, keys) == [i \in 1..Len(keys) |-> row[Idx(t, keys[i])]]
KeysIn(t, keys) == {KeyOf(t, t.rows[r], keys) : r \in 1..Len(t.rows)}

\* the columns and dtypes of pd.merge(L, R, on=keys, suffixes=('', '_dup'))
MergeRightCols(R, keys) == SelectSeq(R.cols, LAMBDA x : x \notin Range(keys))
MergeCols(L, R, keys) ==
    LET rc == MergeRightCols(R, keys)
    IN  L.cols \o [i \in 1..Len(rc) |->
                    IF rc[i] \in ColSet(L) THEN rc[i] \o suffix_dup ELSE rc[i]]
MergeDtypes(L, R, keys) ==
    LET rc == MergeRightCols(R, keys)
    IN  L.dtypes \o [i \in 1..Len(rc) |-> R.dtypes[Idx(R, rc[i])]]

\* the rows of the join for one key value k
MergeBlock(L, R, keys, k, how) ==
    LET rc == MergeRightCols(R, keys)
        Ls == SelectSeq(L.rows, LAMBDA r : KeyOf(L, r, keys) = k)
        Rs == SelectSeq(R.rows, LAMBDA r : KeyOf(R, r, keys) = k)
        RPart(r) == [i \in 1..Len(rc) |-> r[Idx(R, rc[i])]]
        RNull == [i \in 1..Len(rc) |-> NaN]
        LFromR(r) == [j \in 1..Len(L.cols) |->
                        IF L.cols[j] \in Range(keys)
                        THEN r[Idx(R, L.cols[j])] ELSE NaN]
    IN  IF Ls # <<>> /\ Rs # <<>>
        THEN FlattenSeq([i \in 1..Len(Ls) |->
                            [j \in 1..Len(Rs) |-> Ls[i] \o RPart(Rs[j])]])
        ELSE IF how = "inner" THEN <<>>
        ELSE IF Rs = <<>>
        THEN [i \in 1..Len(Ls) |-> Ls[i] \o RNull]
        ELSE [j \in 1..Len(Rs) |-> LFromR(Rs[j]) \o RPart(Rs[j])]

pd_merge_how(L, R, keys, how) ==
    LET ks == SortedKeys(KeysIn(L, keys) \cup KeysIn(R, keys))
    IN  [cols   |-> MergeCols(L, R, keys),
         dtypes |-> MergeDtypes(L, R, keys),
         rows   |-> FlattenSeq([i \in 1..Len(ks) |->
                                    MergeBlock(L, R, keys, ks[i], how)])]

\* pd.merge(..., how='inner'): the rows whose key both sides hold
pd_merge_inner(L, R, keys) == pd_merge_how(L, R, keys, "inner")

\* pd.merge(L, R, on=keys, how='outer', suffixes=('', '_dup'))
pd_merge(L, R, keys) == pd_merge_how(L, R, keys, "outer")

\* result.loc[:, ~result.columns.str.endswith('_dup')]
DropDupColumns(t) ==
    LET keep == SelectSeq([i \in 1..Len(t.cols) |-> i],
                          LAMBDA i : ~EndsWith(t.cols[i], suffix_dup))
    IN  [cols   |-> [j \in 1..Len(keep) |-> t.cols[keep[j]]],
         dtypes |-> [j \in 1..Len(keep) |-> t.dtypes[keep[j]]],
         rows   |-> [r \in 1..Len(t.rows) |->
                        [j \in 1..Len(keep) |-> t.rows[r][keep[j]]]]]

key_candidates == <<col_id, col_date, col_timestamp, col_campaign_id,
                    col_location_id, col_user_id, col_customer_id,
                    col_region, col_category>>

common_columns(tables) ==
    {x \in ColSet(tables[1]) : \A i \in 1..Len(tables) : x \in ColSet(tables[i])}

\* the first common candidate alone
first_merge_key(tables) ==
    LET shared == SelectSeq(key_candidates, LAMBDA x : x \in common_columns(tables))
    IN  IF shared = <<>> THEN <<>> ELSE <<Head(shared)>>

merge_keys(tables) ==
    SelectSeq(key_candidates, LAMBDA x : x \in common_columns(tables))

RECURSIVE MergeChain(_, _, _)
MergeChain(result, rest, keys) ==
    IF rest = <<>> THEN result
    ELSE MergeChain(DropDupColumns(pd_merge(result, Head(rest), keys)),
                    Tail(rest), keys)

merge_dataframes(tables) ==
    IF Len(tables) = 0 THEN Raise("ValueError: No DataFrames to merge")
    ELSE IF Len(tables) = 1 THEN tables[1]
    ELSE IF merge_keys(tables) # <<>>
         THEN MergeChain(tables[1], Tail(tables), merge_keys(tables))
         ELSE pd_concat(tables)

\* what merge_dataframes logs (ingest.py:145, 149)
merge_logged(tables) ==
    IF Len(tables) <= 1 THEN ""
    ELSE IF merge_keys(tables) # <<>> THEN "Merged DataFrames on keys"
    ELSE "Concatenated DataFrames (no common keys found)"

(***************************************************************************)
(* SpecMerge: merge_dataframes on a list of tables.  The lists range over  *)
(* a set of schema lists; table i holds up to MaxMergeRows rows whose key  *)
(* cells range over KeyVals and whose other cells tell the table and the   *)
(* row they come from.                                                     *)
(***************************************************************************)
MaxMergeRows == 3
KeyVals == {1, 2}

MergeSchemas ==
    { <<>>,
      << <<col_date, col_a>> >>,
      << <<col_date, col_a>>, <<col_date, col_b>> >>,
      << <<col_date, col_a>>, <<col_date, col_b>>, <<col_date, col_c>> >>,
      << <<col_date, col_a>>, <<col_date, col_a>> >>,
      << <<col_a>>, <<col_b>> >>,
      << <<col_a>>, <<col_a, col_b>> >>,
      << <<col_date, col_a>>, <<col_date, col_b>>, <<col_c>> >>,
      << <<col_id, col_date, col_a>>, <<col_date, col_id, col_b>> >>,
      << <<col_id, col_date, col_a>>, <<col_date, col_b>> >>,
      << <<col_date, col_a \o suffix_dup>>, <<col_date, col_b>> >> }

\* table i on the labels cs: row r holds ks[r] in its key columns (in its
\* first column when it has no key column; as a date text in the column
\* "date") and 10 * i + r elsewhere
InputTable(i, cs, ks) ==
    LET isKey(j) == \/ cs[j] \in Range(key_candidates)
                    \/ j = 1 /\ \A x \in Range(cs) : x \notin Range(key_candidates)
    IN  [cols   |-> cs,
         dtypes |-> [j \in 1..Len(cs) |->
                        IF cs[j] = col_date THEN "object" ELSE "num"],
         rows   |-> [r \in 1..Len(ks) |->
                        [j \in 1..Len(cs) |->
                            IF cs[j] = col_date THEN DateText(ks[r])
                            ELSE IF isKey(j) THEN Val(ks[r])
                            ELSE Val(10 * i + r)]]]

MergeInit ==
    /\ MergeAlone
    /\ mpc = "input"
    /\ \E schema \in MergeSchemas :
         \E ks \in [1..Len(schema) -> SeqsUpTo(KeyVals, MaxMergeRows)] :
            dfs = [i \in 1..Len(schema) |-> InputTable(i, schema[i], ks[i])]
    /\ merge_result = <<>>
    /\ merge_log = ""

MergeCall ==
    /\ mpc = "input"
    /\ merge_result' = merge_dataframes(dfs)
    /\ merge_log' = merge_logged(dfs)
    /\ mpc' = "done"
    /\ UNCHANGED <<dfs, notMerge>>

MergeNext == MergeCall

SpecMerge == MergeInit /\ [][MergeNext]_vars

RowCounts(tables) == [i \in 1..Len(tables) |-> NRows(tables[i])]
\* a key cell that several rows of the table hold
HasRepeatedKey(t, keys) ==
    \E r1, r2 \in 1..Len(t.rows) :
        r1 # r2 /\ KeyOf(t, t.rows[r1], keys) = KeyOf(t, t.rows[r2], keys)

MergedOnDateOnly ==
    /\ mpc = "done"
    /\ Len(dfs) >= 2
    /\ common_columns(dfs) = {col_date}

\* C3 (as claimed): tables whose only shared column is "date" merge into a
\* table with at least max(row counts) and at most sum(row counts) rows,
\* also when a date occurs in several rows of each table.
C3_OuterJoinRowBounds ==
    MergedOnDateOnly =>
        /\ ~IsRaise(merge_result)
        /\ NRows(merge_result) >= MaxOf(Range(RowCounts(dfs)))
        /\ NRows(merge_result) <= SumSeq(RowCounts(dfs))

\* C3 (amended): the row count is at least max(row counts) for all such
\* tables, and at most sum(row counts) when at most one of the tables holds
\* a date in several rows.
C3_OuterJoinRowBoundsAmended ==
    MergedOnDateOnly =>
        /\ ~IsRaise(merge_result)
        /\ merge_log = "Merged DataFrames on keys"
        /\ NRows(merge_result) >= MaxOf(Range(RowCounts(dfs)))
        /\ Cardinality({i \in 1..Len(dfs) : HasRepeatedKey(dfs[i], <<col_date>>)}) <= 1
              => NRows(merge_result) <= SumSeq(RowCounts(dfs))

\* three tables joined on date, one of them with a repeated date and one
\* with a date the others lack
C3_Witness ==
    /\ MergedOnDateOnly
    /\ Len(dfs) = 3
    /\ Cardinality({i \in 1..Len(dfs) : HasRepeatedKey(dfs[i], <<col_date>>)}) = 1
    /\ NRows(merge_result) > MaxOf(Range(RowCounts(dfs)))
    /\ NRows(merge_result) < SumSeq(RowCounts(dfs))

\* C4: two or more tables with no column in common are concatenated: the
\* result has sum(row counts) rows and the union of the columns.
C4_ConcatNoCommonColumns ==
    (mpc = "done" /\ Len(dfs) >= 2 /\ common_columns(dfs) = {}) =>
        /\ ~IsRaise(merge_result)
        /\ merge_log = "Concatenated DataFrames (no common keys found)"
        /\ NRows(merge_result) = SumSeq(RowCounts(dfs))
        /\ ColSet(merge_result) = UNION {ColSet(dfs[i]) : i \in 1..Len(dfs)}
        /\ Len(merge_result.cols) = Cardinality(ColSet(merge_result))

\* three non-empty tables, no column common to all, concatenated
C4_Witness ==
    /\ mpc = "done"
    /\ Len(dfs) = 3
    /\ common_columns(dfs) = {}
    /\ \A i \in 1..3 : NRows(dfs[i]) = 2
    /\ NRows(merge_result) = 6
    /\ NCols(merge_result) = 4

(***************************************************************************)
(* Numbers.  A rounded float is held as an integer count of its last       *)
(* decimal place: round(x, 2) as hundredths, round(x, 4) as                *)
(* ten-thousandths.  Rounding is to the nearest, ties to even.             *)
(***************************************************************************)
\* n / d rounded to an integer, d > 0
RoundDivPos(n, d) ==
    LET q == (2 * n + d) \div (2 * d)
    IN  IF (2 * n + d) % (2 * d) = 0 /\ q % 2 = 1 THEN q - 1 ELSE q

\* n / d rounded to an integer, d # 0
RoundDiv(n, d) == IF d > 0 THEN RoundDivPos(n, d) ELSE RoundDivPos(-n, -d)

\* round(n / d, 2), in hundredths
Round2(n, d) == RoundDiv(100 * n, d)

(***************************************************************************)
(* Columns of a table.                                                     *)
(***************************************************************************)
Column(t, c_) == [r \in 1..Len(t.rows) |-> t.rows[r][Idx(t, c_)]]
DtypeOf(t, c_) == t.dtypes[Idx(t, c_)]

\* df.select_dtypes(include=[np.number]).columns.tolist()
NumericCols(t) == SelectSeq(t.cols, LAMBDA x : DtypeOf(t, x) = "num")
\* [col for col in df.columns if is_datetime64_any_dtype(df[col])]
DatetimeCols(t) == SelectSeq(t.cols, LAMBDA x : DtypeOf(t, x) = "datetime")

\* Series.dropna()
DropNa(cells) == SelectSeq(cells, LAMBDA x : x # NaN)

\* Series.sum(): the missing cells are skipped
RECURSIVE SumCells(_)
SumCells(cells) ==
    IF cells = <<>> THEN 0
    ELSE (IF Head(cells) = NaN THEN 0 ELSE Head(cells)[1]) + SumCells(Tail(cells))

\* Series.min(), Series.max() over the cells that are not missing
MinCell(cells) ==
    LET S == {x[1] : x \in Range(DropNa(cells))}
    IN  CHOOSE m \in S : \A x \in S : m <= x
MaxCell(cells) ==
    LET S == {x[1] : x \in Range(DropNa(cells))}
    IN  CHOOSE m \in S : \A x \in S : x <= m

\* df[mask]: the rows of t whose position is in mask, in order
FilterRows(t, mask) ==
    LET ix == SelectSeq([i \in 1..Len(t.rows) |-> i], LAMBDA i : i \in mask)
    IN  [t EXCEPT !.rows = [j \in 1..Len(ix) |-> t.rows[ix[j]]]]

(***************************************************************************)
(* compute_period_comparison (kpis.py:139-198).  A Python dict is a        *)
(* function on its keys; the key f'{col}_<suffix>' is <<col, suffix>> and  *)
(* a key that names no column is <<"", key>> with the empty label.         *)
(***************************************************************************)
period_suffixes == {"period_change_pct", "period1_total", "period2_total"}
NoLabel == <<>>

\* ((p2 - p1) / p1) * 100 when p1 > 0, else 100 when p2 > 0, else 0;
\* rounded to 2 places                                  (kpis.py:185-190)
change_pct(p1_sum, p2_sum) ==
    IF p1_sum > 0 THEN Round2((p2_sum - p1_sum) * 100, p1_sum)
    ELSE IF p2_sum > 0 THEN Round2(100, 1) ELSE Round2(0, 1)

\* the midpoint, min_date + (date_range // 2) days          (kpis.py:172)
mid_date(min_date, date_range) == min_date + (date_range \div 2)

\* the first datetime column holds no date: its min() and max() are the
\* float nan, and (max_date - min_date).days raises        (kpis.py:163-165)
NoValidDate(t) ==
    DatetimeCols(t) # <<>> /\ DropNa(Column(t, DatetimeCols(t)[1])) = <<>>

compute_period_comparison(t) ==
    IF DatetimeCols(t) = <<>> THEN <<>>
    ELSE IF NoValidDate(t)
    THEN Raise("AttributeError: 'float' object has no attribute 'days'")
    ELSE
    LET date_col == DatetimeCols(t)[1]
        dates == Column(t, date_col)
        min_date == MinCell(dates)
        max_date == MaxCell(dates)
        date_range == max_date - min_date
        mid == mid_date(min_date, date_range)
        period1 == FilterRows(t, {r \in 1..Len(t.rows) :
                                    dates[r] # NaN /\ dates[r][1] < mid})
        period2 == FilterRows(t, {r \in 1..Len(t.rows) :
                                    dates[r] # NaN /\ dates[r][1] >= mid})
        \* df['date'] (kpis.py:160) replaces a numeric column "date", if any
        numeric_cols == SelectSeq(NumericCols(t), LAMBDA x : x # col_date)
        p1_sum(c_) == SumCells(Column(period1, c_))
        p2_sum(c_) == SumCells(Column(period2, c_))
        keys == {<<c_, sfx>> : c_ \in Range(numeric_cols), sfx \in period_suffixes}
                  \cup {<<NoLabel, "period1_dates">>, <<NoLabel, "period2_dates">>}
    IN  IF date_range < 2 THEN <<>>
        ELSE [k \in keys |->
                CASE k[2] = "period_change_pct" -> change_pct(p1_sum(k[1]), p2_sum(k[1]))
                  [] k[2] = "period1_total" -> Round2(p1_sum(k[1]), 1)
                  [] k[2] = "period2_total" -> Round2(p2_sum(k[1]), 1)
                  [] k[2] = "period1_dates" -> <<min_date, mid>>
                  [] k[2] = "period2_dates" -> <<mid, max_date>>]

(***************************************************************************)
(* SpecPeriod: compute_period_comparison on a table of a datetime column   *)
(* "date" and a numeric column "spend".                                    *)
(***************************************************************************)
MaxPeriodRows == 4
MaxDay == 4
MetricVals == {0, 50, 100, 300}
\* totals of either sign: a metric such as a net amount
SignedVals == {-100, 0, 50}

PeriodTable(days, vals, date_dtype) ==
    [cols   |-> <<col_date, col_spend>>,
     dtypes |-> <<date_dtype, "num">>,
     rows   |-> [r \in 1..Len(days) |->
                    <<IF date_dtype = "datetime" THEN Val(days[r]) ELSE DateText(days[r]),
                      Val(vals[r])>>]]

PeriodInit ==
    /\ FnAlone
    /\ fpc = "input"
    /\ \E n \in 1..MaxPeriodRows :
         \E days \in [1..n -> 1..MaxDay], vals \in [1..n -> MetricVals] :
            /\ \A i \in 1..(n - 1) : days[i] <= days[i + 1]
            /\ \/ df = PeriodTable(days, vals, "datetime")
               \/ n = 1 /\ df = PeriodTable(days, vals, "object")
               \/ /\ n = 3
                  /\ \E signed \in [1..3 -> SignedVals] :
                        df = PeriodTable(<<1, 2, 3>>, signed, "datetime")
    /\ comparisons = <<>>
    /\ anomalies = <<>>
    /\ derived_df = <<>>

PeriodCall ==
    /\ fpc = "input"
    /\ comparisons' = compute_period_comparison(df)
    /\ fpc' = "done"
    /\ UNCHANGED <<df, anomalies, derived_df, notFn>>

PeriodNext == PeriodCall

SpecPeriod == PeriodInit /\ [][PeriodNext]_vars

\* the sum of the metric over the rows dated from day lo to day hi
SpendOver(t, lo, hi) ==
    SumCells(Column(FilterRows(t, {r \in 1..Len(t.rows) :
                                     t.rows[r][1][1] >= lo /\ t.rows[r][1][1] <= hi}),
                    col_spend))

\* a table spanning exactly the four consecutive days 1..4 whose metric
\* totals 100 over days 1-2 and 300 over days 3-4
FourDays100Then300 ==
    /\ fpc = "done"
    /\ DatetimeCols(df) # <<>>
    /\ {r[1][1] : r \in Range(df.rows)} = 1..4
    /\ SpendOver(df, 1, 2) = 100
    /\ SpendOver(df, 3, 4) = 300

\* C5: on a table spanning exactly 4 consecutive days with metric totals
\* 100 over days 1-2 and 300 over days 3-4, the reported change is 200.0,
\* whatever the per-day distribution of the 100 and the 300.
C5_PeriodChange200 ==
    FourDays100Then300 =>
        /\ <<col_spend, "period_change_pct">> \in DOMAIN comparisons
        /\ comparisons[<<col_spend, "period_change_pct">>] = Round2(200, 1)

(***************************************************************************)
(* detect_anomalies (kpis.py:201-238).                                     *)
(***************************************************************************)
threshold_default == 2

RECURSIVE SumSquares(_)
SumSquares(cells) ==
    IF cells = <<>> THEN 0
    ELSE Head(cells)[1] * Head(cells)[1] + SumSquares(Tail(cells))

\* z > threshold without np.abs: only the values above the mean
z_score_above_signed(x, data, threshold) ==
    LET n == Len(data)
        S == SumCells(data)
        Q == SumSquares(data)
    IN  /\ n * x - S > 0
        /\ (n * x - S) * (n * x - S) > threshold * threshold * (n * Q - S * S)

\* np.abs(stats.zscore(data)) > threshold for the value x of data:
\* |x - mean| / std > threshold with mean = S / n and the population
\* std = sqrt(n Q - S^2) / n; with std = 0 the z-score is NaN and the
\* comparison false                                      (kpis.py:222-223)
z_score_above(x, data, threshold) ==
    LET n == Len(data)
        S == SumCells(data)
        Q == SumSquares(data)
    IN  (n * x - S) * (n * x - S) > threshold * threshold * (n * Q - S * S)

FirstN(s_, n) == SubSeq(s_, 1, IF Len(s_) < n THEN Len(s_) ELSE n)

\* the entry of one column; data.std() is held by its square, the sample
\* variance, as <<numerator, denominator>>
AnomalyEntry(data, threshold) ==
    LET hits == SelectSeq(data, LAMBDA x : z_score_above(x[1], data, threshold))
        n == Len(data)
    IN  [count      |-> Len(hits),
         percentage |-> Round2(Len(hits) * 100, n),
         values     |-> [i \in 1..Len(FirstN(hits, 5)) |-> Round2(hits[i][1], 1)],
         mean       |-> Round2(SumCells(data), n),
         std        |-> [squared |-> <<n * SumSquares(data) - SumCells(data) * SumCells(data),
                                       n * (n - 1)>>]]

detect_anomalies(t, threshold) ==
    LET data(c_) == DropNa(Column(t, c_))
        flagged == {c_ \in Range(NumericCols(t)) :
                      /\ Len(data(c_)) >= 3
                      /\ AnomalyEntry(data(c_), threshold).count > 0}
    IN  [c_ \in flagged |-> AnomalyEntry(data(c_), threshold)]

(***************************************************************************)
(* SpecAnomaly: detect_anomalies with the default threshold on a table of  *)
(* one numeric column: ten equal values and one other value at any         *)
(* position, with or without a missing cell; or any short column.          *)
(***************************************************************************)
MaxAnomRows == 4
AnomBase == {0, 5}
FarOffsets == {-1000, -1, 1, 1000}
ShortCells == {NaN, Val(0), Val(1), Val(5)}

InsertAt(s_, pos, x) == SubSeq(s_, 1, pos - 1) \o <<x>> \o SubSeq(s_, pos, Len(s_))

OneColumn(cells) ==
    [cols |-> <<col_spend>>, dtypes |-> <<"num">>,
     rows |-> [r \in 1..Len(cells) |-> <<cells[r]>>]]

AnomalyInit ==
    /\ FnAlone
    /\ fpc = "input"
    /\ \/ \E base \in AnomBase, off \in FarOffsets, pos \in 1..11, gap \in 0..11 :
            LET eleven == InsertAt([i \in 1..10 |-> Val(base)], pos, Val(base + off))
            IN  df = OneColumn(IF gap = 0 THEN eleven ELSE InsertAt(eleven, gap, NaN))
       \/ \E cells \in SeqsUpTo(ShortCells, MaxAnomRows) : df = OneColumn(cells)
    /\ comparisons = <<>>
    /\ anomalies = <<>>
    /\ derived_df = <<>>

AnomalyCall ==
    /\ fpc = "input"
    /\ anomalies' = detect_anomalies(df, threshold_default)
    /\ fpc' = "done"
    /\ UNCHANGED <<df, comparisons, derived_df, notFn>>

AnomalyNext == AnomalyCall

SpecAnomaly == AnomalyInit /\ [][AnomalyNext]_vars

SpendData == DropNa(Column(df, col_spend))
CountOf(x, cells) == Cardinality({i \in 1..Len(cells) : cells[i] = x})
\* the far-away value of a column of ten equal values and one other value
FarValues ==
    {x \in Range(SpendData) :
        /\ Len(SpendData) = 11
        /\ CountOf(x, SpendData) = 1
        /\ \E y \in Range(SpendData) : CountOf(y, SpendData) = 10}

\* C7: with the default threshold, a numeric column of 10 identical values
\* and one far-away value gets exactly one anomaly, the far-away value; a
\* column with fewer than 3 non-null values, or with all values identical,
\* gets no anomaly entry.
C7_OneAnomalyInTenPlusOne ==
    fpc = "done" =>
        /\ \A far \in FarValues :
              /\ col_spend \in DOMAIN anomalies
              /\ anomalies[col_spend].count = 1
              /\ anomalies[col_spend].values = <<Round2(far[1], 1)>>
        /\ (Len(SpendData) < 3 \/ Cardinality(Range(SpendData)) <= 1)
              => col_spend \notin DOMAIN anomalies

\* ten equal values, one value below them and a missing cell: one anomaly
C7_Witness ==
    /\ fpc = "done"
    /\ NRows(df) = 12
    /\ \E far \in FarValues :
          /\ \E y \in Range(SpendData) : far[1] < y[1]
          /\ anomalies[col_spend].count = 1
          /\ anomalies[col_spend].values = <<Round2(far[1], 1)>>

(***************************************************************************)
(* compute_derived_metrics (transform.py:134-217).  A derived cell holds   *)
(* its rounded value as a count of its last decimal place.                 *)
(***************************************************************************)
\* pd.to_numeric(series, errors='coerce') on one cell
to_numeric(x) == IF IsText(x) THEN NaN ELSE x

\* series.replace(0, np.nan) on one cell
replace_zero(x) == IF x = Val(0) THEN NaN ELSE x

\* the denominator as it is, zero included
keep_zero(x) == x

Pow10(k) == IF k = 2 THEN 100 ELSE IF k = 4 THEN 10000 ELSE 1

\* (num / den * factor).round(places): a float division, in which a
\* missing operand gives NaN, 0 / 0 gives NaN and x / 0 gives an infinity
DivRound(num, den, factor, places) ==
    IF num = NaN \/ den = NaN THEN NaN
    ELSE IF den[1] = 0
         THEN (IF num[1] = 0 THEN NaN ELSE Inf(IF num[1] > 0 THEN 1 ELSE -1))
         ELSE Val(RoundDiv(num[1] * factor * Pow10(places), den[1]))

\* the denominator of a derived metric, df[den].replace(0, np.nan)
Denominator(x) == replace_zero(x)

\* the derived metrics in the order of the source: name, numerator,
\* denominator, factor, decimal places
derived_metrics ==
    << [name |-> col_ctr,             num |-> col_clicks,      den |-> col_impressions,     factor |-> 100,  places |-> 4],
       [name |-> col_cpc,             num |-> col_spend,       den |-> col_clicks,          factor |-> 1,    places |-> 4],
       [name |-> col_cpm,             num |-> col_spend,       den |-> col_impressions,     factor |-> 1000, places |-> 4],
       [name |-> col_conversion_rate, num |-> col_conversions, den |-> col_clicks,          factor |-> 100,  places |-> 4],
       [name |-> col_cpa,             num |-> col_spend,       den |-> col_conversions,     factor |-> 1,    places |-> 4],
       [name |-> col_roas,            num |-> col_revenue,     den |-> col_spend,           factor |-> 1,    places |-> 4],
       [name |-> col_engagement_rate, num |-> col_engagements, den |-> col_impressions,     factor |-> 100,  places |-> 4],
       [name |-> col_pages_per_visit, num |-> col_visits,      den |-> col_unique_visitors, factor |-> 1,    places |-> 2] >>

\* the columns coerced to numbers first                (transform.py:147-151)
coerced_cols == {col_clicks, col_impressions, col_conversions, col_spend,
                 col_revenue, col_visits, col_foot_traffic,
                 col_unique_visitors, col_engagements}

\* df[name] = cells: replaces the column of that label or appends it
SetColumn(t, name, dtype, cells) ==
    IF name \in ColSet(t)
    THEN [cols   |-> t.cols,
          dtypes |-> [t.dtypes EXCEPT ![Idx(t, name)] = dtype],
          rows   |-> [r \in 1..Len(t.rows) |->
                        [t.rows[r] EXCEPT ![Idx(t, name)] = cells[r]]]]
    ELSE [cols   |-> Append(t.cols, name),
          dtypes |-> Append(t.dtypes, dtype),
          rows   |-> [r \in 1..Len(t.rows) |-> Append(t.rows[r], cells[r])]]

CoerceNumeric(t) ==
    [cols   |-> t.cols,
     dtypes |-> [j \in 1..Len(t.cols) |->
                    IF t.cols[j] \in coerced_cols THEN "num" ELSE t.dtypes[j]],
     rows   |-> [r \in 1..Len(t.rows) |->
                    [j \in 1..Len(t.cols) |->
                        IF t.cols[j] \in coerced_cols
                        THEN to_numeric(t.rows[r][j]) ELSE t.rows[r][j]]]]

RECURSIVE AddDerived(_, _)
AddDerived(t, metrics) ==
    IF metrics = <<>> THEN t
    ELSE LET m == Head(metrics)
             cells == [r \in 1..Len(t.rows) |->
                         DivRound(t.rows[r][Idx(t, m.num)],
                                  Denominator(t.rows[r][Idx(t, m.den)]),
                                  m.factor, m.places)]
         IN  IF m.num \in ColSet(t) /\ m.den \in ColSet(t)
             THEN AddDerived(SetColumn(t, m.name, "num", cells), Tail(metrics))
             ELSE AddDerived(t, Tail(metrics))

compute_derived_metrics(t) == AddDerived(CoerceNumeric(t), derived_metrics)

(***************************************************************************)
(* SpecDerived: compute_derived_metrics on tables of up to three source    *)
(* columns.                                                                *)
(***************************************************************************)
MaxDerivedRows == 2
NumCells == {NaN, Val(0), Val(1), Val(3)}
ObjectCells == {Text("n/a"), Val(3)}

DerivedSchemas ==
    { <<col_clicks, col_impressions>>,
      <<col_spend, col_clicks, col_impressions>>,
      <<col_spend, col_conversions, col_clicks>>,
      <<col_revenue, col_spend>>,
      <<col_engagements, col_impressions>>,
      <<col_visits, col_unique_visitors>>,
      <<col_region, col_clicks>>,
      <<col_impressions>> }

CellsOfDtype(dtype) == IF dtype = "num" THEN NumCells ELSE ObjectCells

DerivedInit ==
    /\ FnAlone
    /\ fpc = "input"
    /\ \E cs \in DerivedSchemas, n \in 1..MaxDerivedRows :
         \E dts \in [1..Len(cs) -> {"num", "object"}] :
           \E rows \in [1..n -> [1..Len(cs) -> NumCells \cup ObjectCells]] :
              /\ \A j \in 1..Len(cs) : dts[j] = "object" <=> cs[j] = col_region
              /\ \A r \in 1..n, j \in 1..Len(cs) : rows[r][j] \in CellsOfDtype(dts[j])
              /\ df = [cols |-> cs, dtypes |-> dts, rows |-> rows]
    /\ comparisons = <<>>
    /\ anomalies = <<>>
    /\ derived_df = <<>>

DerivedCall ==
    /\ fpc = "input"
    /\ derived_df' = compute_derived_metrics(df)
    /\ fpc' = "done"
    /\ UNCHANGED <<df, comparisons, anomalies, notFn>>

DerivedNext == DerivedCall

SpecDerived == DerivedInit /\ [][DerivedNext]_vars

\* the metrics whose two source columns the table has
Computed(t) ==
    {i \in 1..Len(derived_metrics) :
        derived_metrics[i].num \in ColSet(t) /\ derived_metrics[i].den \in ColSet(t)}

\* the operands of metric m in row r of the input, read as numbers
Operand(t, r, c_) == to_numeric(t.rows[r][Idx(t, c_)])
DerivedCell(t, r, m) == t.rows[r][Idx(t, m.name)]

\* no error, no row added or removed, every metric with both source columns
\* is a column, null on a zero denominator, never an infinity
NullOnZeroDenominator ==
    /\ ~IsRaise(derived_df)
    /\ NRows(derived_df) = NRows(df)
    /\ \A i \in Computed(df), r \in 1..NRows(df) :
         LET m == derived_metrics[i] IN
            /\ m.name \in ColSet(derived_df)
            /\ Operand(df, r, m.den) = Val(0) => DerivedCell(derived_df, r, m) = NaN
            /\ ~IsInf(DerivedCell(derived_df, r, m))

OneRow(cs, vals) ==
    [cols |-> cs, dtypes |-> [j \in 1..Len(cs) |-> "num"], rows |-> << vals >>]

\* CTR on {clicks: 50, impressions: 1000} is 5.0 and on {clicks: 10,
\* impressions: 0} is null
CtrExamples ==
    /\ LET t == compute_derived_metrics(OneRow(<<col_clicks, col_impressions>>,
                                               <<Val(50), Val(1000)>>))
       IN  t.rows[1][Idx(t, col_ctr)] = Val(5 * 10000)
    /\ LET t == compute_derived_metrics(OneRow(<<col_clicks, col_impressions>>,
                                               <<Val(10), Val(0)>>))
       IN  t.rows[1][Idx(t, col_ctr)] = NaN

\* C6 (as claimed): compute_derived_metrics never raises on a zero
\* denominator; in every row ctr equals clicks / impressions * 100 when
\* impressions is not 0 and is null when it is 0; the null rule holds for
\* the other seven metrics; no derived value is infinite.
C6_DerivedExactRatio ==
    fpc = "done" =>
        /\ NullOnZeroDenominator
        /\ CtrExamples
        /\ (col_clicks \in ColSet(df) /\ col_impressions \in ColSet(df)) =>
             \A r \in 1..NRows(df) :
                LET clicks == Operand(df, r, col_clicks)
                    impressions == Operand(df, r, col_impressions)
                    ctr == derived_df.rows[r][Idx(derived_df, col_ctr)]
                IN  (IsNumber(clicks) /\ IsNumber(impressions) /\ impressions[1] # 0) =>
                        /\ IsNumber(ctr)
                        \* ctr = clicks / impressions * 100, ctr in ten-thousandths
                        /\ ctr[1] * impressions[1] = clicks[1] * 100 * 10000

\* C6 (amended): as claimed, except that ctr is clicks / impressions * 100
\* rounded to 4 decimal places; and every other metric is its ratio rounded
\* to 4 places (pages_per_visit: 2) when its denominator is not 0.
C6_DerivedRoundedRatio ==
    fpc = "done" =>
        /\ NullOnZeroDenominator
        /\ CtrExamples
        /\ \A i \in Computed(df), r \in 1..NRows(df) :
             LET m == derived_metrics[i]
                 num == Operand(df, r, m.num)
                 den == Operand(df, r, m.den)
             IN  (IsNumber(num) /\ IsNumber(den) /\ den[1] # 0) =>
                    DerivedCell(derived_df, r, m)
                        = Val(RoundDiv(num[1] * m.factor * Pow10(m.places), den[1]))

\* a table with a zero impressions cell and clicks / impressions = 1 / 3
C6_Witness ==
    /\ fpc = "done"
    /\ df.cols = <<col_spend, col_clicks, col_impressions>>
    /\ NRows(df) = 2
    /\ df.rows[1] = <<Val(3), Val(1), Val(0)>>
    /\ df.rows[2] = <<Val(1), Val(1), Val(3)>>
    /\ derived_df.rows[1][Idx(derived_df, col_ctr)] = NaN
    /\ derived_df.rows[2][Idx(derived_df, col_ctr)] = Val(333333)

(***************************************************************************)
(* The upload directory and its readers.  A file holds its name and what   *)
(* reading it gives.  A text is a sequence of tokens: a word (letters), an *)
(* integer (n, spelled w, "12,000" or "300"; first and last are its first  *)
(* and last digit group), a decimal (spelled w, n its fraction digits),    *)
(* ":", ",", "%" and white space.  Texts over these tokens hold no "$", no *)
(* "-" or "/", no date and none of the words K, M, B, through, campaign,   *)
(* promo, sale, offer: the patterns dollar_amounts, large_numbers and      *)
(* dates, the spelled-out click-through rate and the campaign and date     *)
(* entities find nothing in them.                                          *)
(***************************************************************************)
Word(w) == [k |-> "word", w |-> w]
Num(n, w, first, last) == [k |-> "num", w |-> w, n |-> n, first |-> first, last |-> last]
Dec(w, first, n) == [k |-> "dec", w |-> w, n |-> n, first |-> first, last |-> w]
Colon == [k |-> "colon"]
Comma == [k |-> "comma"]
Percent == [k |-> "percent"]
Space == [k |-> "space"]

StartsWith(s_, prefix) ==
    /\ Len(s_) >= Len(prefix)
    /\ SubSeq(s_, 1, Len(prefix)) = prefix

\* s_ in sub s_ (Python: sub in s_)
Contains(s_, sub) ==
    \E i \in 1..(Len(s_) - Len(sub) + 1) : SubSeq(s_, i, i + Len(sub) - 1) = sub

\* read_csv_file: the table of a CSV that one of the four encodings reads
read_csv_file(f) ==
    IF f.readable THEN f.table
    ELSE Raise("ValueError: Could not read CSV file with any supported encoding")

col_data == <<"d","a","t","a">>

\* pd.DataFrame([data]) for a mapping data: one row, one column per key
OneRecord(keys, vals) ==
    [cols   |-> keys,
     dtypes |-> [j \in 1..Len(keys) |-> IF IsText(vals[j]) THEN "object" ELSE "num"],
     rows   |-> << vals >>]

\* read_json_file: a list of records, a mapping with the key "data", any
\* other mapping, or any other JSON value
read_json_file(f) ==
    IF f.json = "list" THEN f.records
    ELSE IF f.json = "dict"
         THEN IF col_data \in Range(f.keys) THEN f.records
              ELSE OneRecord(f.keys, f.vals)
         ELSE Raise("ValueError: Unsupported JSON structure")

\* read_text_file: the content; a file that cannot be opened raises OSError
read_text_file(f) ==
    IF f.readable THEN [content |-> f.text] ELSE Raise("OSError")

\* read_pdf_file: the text of the pages; raises when PyPDF2 is missing or
\* cannot read the file
read_pdf_file(f) ==
    IF f.readable THEN [content |-> f.text] ELSE Raise("PdfReadError")

\* read_markdown_file: the text has no markdown marks; content.strip()
read_markdown_file(f) ==
    IF f.readable THEN [content |-> Strip(f.text, {Space})] ELSE Raise("OSError")

(***************************************************************************)
(* Regex extraction (unstructured.py:125-227).                             *)
(***************************************************************************)
IsNumTok(x) == x.k \in {"num", "dec"}

\* the position after the run of tokens of the kinds skip that starts at i
RECURSIVE SkipFrom(_, _, _)
SkipFrom(text, i, skip) ==
    IF i <= Len(text) /\ text[i].k \in skip THEN SkipFrom(text, i + 1, skip) ELSE i

\* (\d+(?:,\d{3})*)\s*(?:stem...): an integer, white space, a word that
\* starts with one of the stems; of a decimal the digits after the point
\* match
CountMatches(text, stems) ==
    LET hit(i) ==
            /\ IsNumTok(text[i])
            /\ LET j == SkipFrom(text, i + 1, {"space"})
               IN  /\ j <= Len(text)
                   /\ text[j].k = "word"
                   /\ \E s_ \in stems : StartsWith(Lower(text[j].w), s_)
        at == SelectSeq([i \in 1..Len(text) |-> i], hit)
    IN  [m \in 1..Len(at) |-> text[at[m]].n]

\* (\d+(?:\.\d+)?)\s*%: a number, white space, "%"; of an integer with
\* thousands separators the last digit group matches
PercentMatches(text) ==
    LET hit(i) ==
            /\ IsNumTok(text[i])
            /\ LET j == SkipFrom(text, i + 1, {"space"})
               IN  j <= Len(text) /\ text[j].k = "percent"
        at == SelectSeq([i \in 1..Len(text) |-> i], hit)
    IN  [m \in 1..Len(at) |-> text[at[m]].last]

\* (?:CTR|...)[:\s]*(\d+(?:\.\d+)?)\s*%?: a word that ends with CTR, colons
\* and white space, a number; of an integer with thousands separators the
\* first digit group matches
CtrMatches(text) ==
    LET hit(i) ==
            /\ text[i].k = "word"
            /\ EndsWith(Lower(text[i].w), col_ctr)
            /\ LET j == SkipFrom(text, i + 1, {"space", "colon"})
               IN  j <= Len(text) /\ IsNumTok(text[j])
        at == SelectSeq([i \in 1..Len(text) |-> i], hit)
    IN  [m \in 1..Len(at) |->
            LET x == text[SkipFrom(text, at[m] + 1, {"space", "colon"})]
            IN  IF x.k = "dec" THEN x.w ELSE x.first]

key_percentages == <<"p","e","r","c","e","n","t","a","g","e","s">>
key_visitors == <<"v","i","s","i","t","o","r","s">>
key_campaigns == <<"c","a","m","p","a","i","g","n","s">>
key_regions == <<"r","e","g","i","o","n","s">>
key_products == <<"p","r","o","d","u","c","t","s">>
key_dates == <<"d","a","t","e","s">>
key_companies == <<"c","o","m","p","a","n","i","e","s">>

stem_impression == SubSeq(col_impressions, 1, 10)
stem_view == <<"v","i","e","w">>
stem_click == SubSeq(col_clicks, 1, 5)
stem_conversion == SubSeq(col_conversions, 1, 10)
stem_visitor == <<"v","i","s","i","t","o","r">>
stem_user == <<"u","s","e","r">>

\* the patterns in the order of the source; a metric is present when its
\* pattern matches
metric_patterns ==
    << [name |-> key_percentages, kind |-> "percent", stems |-> {}],
       [name |-> col_impressions, kind |-> "count", stems |-> {stem_impression, stem_view}],
       [name |-> col_clicks,      kind |-> "count", stems |-> {stem_click}],
       [name |-> col_conversions, kind |-> "count", stems |-> {stem_conversion}],
       [name |-> key_visitors,    kind |-> "count", stems |-> {stem_visitor, stem_user}],
       [name |-> col_ctr,         kind |-> "ctr",   stems |-> {}] >>

MatchesOf(text, p) ==
    IF p.kind = "count" THEN CountMatches(text, p.stems)
    ELSE IF p.kind = "percent" THEN PercentMatches(text)
    ELSE CtrMatches(text)

\* extract_metrics_from_text: the metrics found, in the order of the
\* patterns; a metric holds a list of integers (numeric |-> TRUE) or the
\* list of the matched strings
extract_metrics_from_text(text) ==
    LET found == SelectSeq(metric_patterns, LAMBDA p : MatchesOf(text, p) # <<>>)
    IN  [i \in 1..Len(found) |->
            [name    |-> found[i].name,
             numeric |-> found[i].kind = "count",
             values  |-> MatchesOf(text, found[i])]]

region_names ==
    << <<"N","o","r","t","h","e","a","s","t">>,
       <<"S","o","u","t","h","e","a","s","t">>,
       <<"M","i","d","w","e","s","t">>,
       <<"W","e","s","t">>,
       <<"S","o","u","t","h","w","e","s","t">>,
       <<"N","o","r","t","h","w","e","s","t">>,
       <<"N","o","r","t","h">>,
       <<"S","o","u","t","h">>,
       <<"E","a","s","t">>,
       <<"C","e","n","t","r","a","l">>,
       <<"P","a","c","i","f","i","c">>,
       <<"A","t","l","a","n","t","i","c">>,
       <<"U","S","A">>,
       <<"U","S">>,
       <<"E","u","r","o","p","e">>,
       <<"A","s","i","a">>,
       <<"A","P","A","C">>,
       <<"E","M","E","A">>,
       <<"L","A","T","A","M">> >>

\* list(set(values)): each value once, in the order the process iterates
\* the set in                                          (unstructured.py:224)
ListOfSet(values) ==
    LET firsts == SelectSeq([i \in 1..Len(values) |-> i],
                            LAMBDA i : \A j \in 1..(i - 1) : values[j] # values[i])
        once == [k \in 1..Len(firsts) |-> values[firsts[k]]]
    IN  IF set_order = "inserted" THEN once
        ELSE [k \in 1..Len(once) |-> once[Len(once) + 1 - k]]

\* extract_entities_from_text: the regions named by a whole word of the
\* text
extract_entities_from_text(text) ==
    LET whole(i) ==
            /\ text[i].k = "word"
            /\ i > 1 => text[i - 1].k \notin {"num", "dec", "word"}
            /\ i < Len(text) => text[i + 1].k \notin {"num", "dec", "word"}
        named(r) == \E i \in 1..Len(text) : whole(i) /\ Lower(text[i].w) = Lower(r)
    IN  << [name |-> key_campaigns, values |-> <<>>],
           [name |-> key_regions,   values |-> ListOfSet(SelectSeq(region_names, named))],
           [name |-> key_products,  values |-> <<>>],
           [name |-> key_dates,     values |-> <<>>],
           [name |-> key_companies, values |-> <<>>] >>

\* the regex result, returned at unstructured.py:246-250 and 314-318
RegexResult(text, method) ==
    [metrics  |-> extract_metrics_from_text(text),
     entities |-> extract_entities_from_text(text),
     method   |-> method]

\* a Python value of the service's JSON answer: a mapping, or None
Dict(items) == [type |-> "dict", items |-> items]
None == [type |-> "NoneType"]

\* what the service call does with a text: outcome is
\*   "error", "timeout" : chat.completions.create raises
\*   "none"             : the message holds no content
\*   "text"             : the content is no JSON
\*   "list", "number", "string", "null" : the content is JSON, no object
\*   "object"           : the content is a JSON object, value its keys
Answer(outcome, value) == [outcome |-> outcome, value |-> value]

\* the try block (unstructured.py:254-311): the parsed object with the
\* method set, or the exception that a statement of the block raises
llm_extract(text) ==
    LET response == service[text]
    IN  IF response.outcome = "error" THEN Raise("APIConnectionError")
        ELSE IF response.outcome = "timeout" THEN Raise("APITimeoutError")
        ELSE IF response.outcome = "none"
        THEN Raise("AttributeError: 'NoneType' object has no attribute 'strip'")
        ELSE IF response.outcome = "text" THEN Raise("JSONDecodeError")
        ELSE IF response.outcome # "object"
        THEN Raise("TypeError: object does not support item assignment")
        ELSE [k \in DOMAIN response.value \cup {"method"} |->
                IF k = "method" THEN "llm" ELSE response.value[k]]

\* the try block without the except clause
extract_without_fallback(text) ==
    IF ~api_key \/ ~OPENAI_AVAILABLE THEN RegexResult(text, "regex")
    ELSE llm_extract(text)

\* extract_structured_data_with_llm: the regex result without an API key or
\* client library, the service's object, or the regex result when the try
\* block raises
extract_structured_data_with_llm(text) ==
    IF ~api_key \/ ~OPENAI_AVAILABLE \/ IsRaise(llm_extract(text))
    THEN RegexResult(text, IF ~api_key \/ ~OPENAI_AVAILABLE
                           THEN "regex" ELSE "regex_fallback")
    ELSE llm_extract(text)

(***************************************************************************)
(* convert_unstructured_to_dataframe, process_unstructured_files and       *)
(* merge_structured_and_unstructured (unstructured.py:322-482).            *)
(***************************************************************************)
col_source_file == <<"s","o","u","r","c","e","_","f","i","l","e">>
col_extraction_method == <<"e","x","t","r","a","c","t","i","o","n","_","m","e","t","h","o","d">>
col_data_source_type == <<"d","a","t","a","_","s","o","u","r","c","e","_","t","y","p","e">>
suffix_total == <<"_","t","o","t","a","l">>
suffix_count == <<"_","c","o","u","n","t">>
suffix_list == <<"_","l","i","s","t">>
col_key_findings == <<"k","e","y","_","f","i","n","d","i","n","g","s">>
col_sentiment == <<"s","e","n","t","i","m","e","n","t">>

\* row_data[key] for a number, row_data[key_total], row_data[key_count] for a
\* list of numbers; a list of strings, a string or None adds nothing
RECURSIVE AddMetrics(_, _)
AddMetrics(t, metrics) ==
    IF metrics = <<>> THEN t
    ELSE LET m == Head(metrics)
             total == SetColumn(t, m.name \o suffix_total, "num",
                                << Val(SumSeq(m.values)) >>)
             both == SetColumn(total, m.name \o suffix_count, "num",
                               << Val(Len(m.values)) >>)
         IN  AddMetrics(IF "scalar" \in DOMAIN m
                        THEN SetColumn(t, m.name, "num", << Val(m.scalar) >>)
                        ELSE IF m.numeric /\ m.values # <<>> THEN both ELSE t,
                        Tail(metrics))

\* row_data[key_count] and, for a non-empty list, row_data[key_list]: the
\* first five values joined
RECURSIVE AddEntities(_, _)
AddEntities(t, entities) ==
    IF entities = <<>> THEN t
    ELSE LET e == Head(entities)
             counted == SetColumn(t, e.name \o suffix_count, "num",
                                  << Val(Len(e.values)) >>)
             listed == SetColumn(counted, e.name \o suffix_list, "object",
                                 << Text(FirstN(e.values, 5)) >>)
         IN  AddEntities(IF e.values # <<>> THEN listed ELSE counted,
                         Tail(entities))

\* extracted_data.get(key, default); the regex result holds its metrics and
\* entities as they are, the service's object holds Python values
GetDict(extracted_data, key) ==
    IF key \notin DOMAIN extracted_data THEN Dict(<<>>)
    ELSE IF extracted_data.method = "llm" THEN extracted_data[key]
    ELSE Dict(extracted_data[key])

\* row_data = {'source_file': ..., 'extraction_method': ...}
RowData(extracted_data, source_file) ==
    [cols   |-> <<col_source_file, col_extraction_method>>,
     dtypes |-> <<"object", "object">>,
     rows   |-> << <<Text(source_file), Text(extracted_data.method)>> >>]

\* row_data['sentiment'], when the key is there
AddSentiment(extracted_data, found) ==
    IF "sentiment" \in DOMAIN extracted_data
    THEN SetColumn(found, col_sentiment, "object", << Text(extracted_data.sentiment) >>)
    ELSE found

\* row_data['key_findings'], when the key holds a non-empty list
AddFindings(extracted_data, counted) ==
    AddSentiment(extracted_data,
        IF "key_findings" \in DOMAIN extracted_data /\ extracted_data.key_findings # <<>>
        THEN SetColumn(counted, col_key_findings, "object",
                       << Text(extracted_data.key_findings) >>)
        ELSE counted)

ConvertDicts(extracted_data, source_file, metrics, entities) ==
    IF metrics.type # "dict" \/ entities.type # "dict"
    THEN Raise("AttributeError: 'NoneType' object has no attribute 'items'")
    ELSE AddFindings(extracted_data,
            AddEntities(AddMetrics(RowData(extracted_data, source_file), metrics.items),
                        entities.items))

\* the one-row table of a file, or the AttributeError of None.items()
convert_unstructured_to_dataframe(extracted_data, source_file) ==
    ConvertDicts(extracted_data, source_file,
                 GetDict(extracted_data, "metrics"), GetDict(extracted_data, "entities"))

\* len(text)
RECURSIVE CharCount(_)
CharCount(text) ==
    IF text = <<>> THEN 0
    ELSE (IF Head(text).k \in {"word", "num", "dec"} THEN Len(Head(text).w) ELSE 1)
         + CharCount(Tail(text))

\* the reader that the suffix selects
ReadUnstructured(f) ==
    IF f.suffix = ".txt" THEN read_text_file(f)
    ELSE IF f.suffix = ".pdf" THEN read_pdf_file(f)
    ELSE read_markdown_file(f)

\* the loop over the files with the try block around the loop: the first
\* file that fails ends it
RECURSIVE ProcessFilesAborting(_, _)
ProcessFilesAborting(file_paths, acc) ==
    IF file_paths = <<>> THEN acc
    ELSE LET f == Head(file_paths)
             read == ReadUnstructured(f)
             extracted == extract_structured_data_with_llm(read.content)
             df_ == convert_unstructured_to_dataframe(extracted, f.name)
         IN  IF IsRaise(read)
             THEN [acc EXCEPT !.files_failed = @ + 1,
                              !.errors = Append(@, [file |-> f.name, error |-> read.raise])]
             ELSE IF IsRaise(df_)
             THEN [acc EXCEPT !.files_failed = @ + 1,
                              !.errors = Append(@, [file |-> f.name, error |-> df_.raise])]
             ELSE ProcessFilesAborting(Tail(file_paths),
                    [acc EXCEPT !.all_dataframes = Append(@, df_),
                                !.files_processed = @ + 1,
                                !.methods = Append(@, extracted.method)])

\* the end of the loop body: the table of the file is kept, or the error
\* of the conversion recorded
ProcessConverted(f, text, method, df_, acc) ==
    IF IsRaise(df_)
    THEN [acc EXCEPT !.raw_texts = Append(@, [file |-> f.name, text |-> text]),
                     !.files_failed = @ + 1,
                     !.errors = Append(@, [file |-> f.name, error |-> df_.raise])]
    ELSE [acc EXCEPT !.all_dataframes = Append(@, df_),
                     !.raw_texts = Append(@, [file |-> f.name, text |-> text]),
                     !.files_processed = @ + 1,
                     !.total_chars_extracted = @ + CharCount(text),
                     !.methods = Append(@, method)]

ProcessExtracted(f, text, extracted, acc) ==
    ProcessConverted(f, text, extracted.method,
                     convert_unstructured_to_dataframe(extracted, f.name), acc)

ProcessRead(f, read, acc) ==
    IF IsRaise(read)
    THEN [acc EXCEPT !.files_failed = @ + 1,
                     !.errors = Append(@, [file |-> f.name, error |-> read.raise])]
    ELSE ProcessExtracted(f, read.content,
                          extract_structured_data_with_llm(read.content), acc)

\* the loop body: a file that fails is counted and recorded
ProcessFile(f, acc) ==
    IF f.suffix \notin {".txt", ".pdf", ".md", ".markdown"} THEN acc
    ELSE ProcessRead(f, ReadUnstructured(f), acc)

\* the loop over the files: after a file that fails the loop goes on
RECURSIVE ProcessFiles(_, _)
ProcessFiles(file_paths, acc) ==
    IF file_paths = <<>> THEN acc
    ELSE ProcessFiles(Tail(file_paths), ProcessFile(Head(file_paths), acc))

\* returns the combined table and the processing summary
process_unstructured_files(file_paths) ==
    LET done == ProcessFiles(file_paths,
                    [all_dataframes |-> <<>>, raw_texts |-> <<>>, files_processed |-> 0,
                     files_failed |-> 0, total_chars_extracted |-> 0, errors |-> <<>>,
                     methods |-> <<>>])
    IN  [combined_df |-> IF done.all_dataframes # <<>>
                         THEN pd_concat(done.all_dataframes) ELSE EmptyFrame,
         processing_summary |->
            [files_processed       |-> done.files_processed,
             files_failed          |-> done.files_failed,
             total_chars_extracted |-> done.total_chars_extracted,
             extraction_methods    |-> [m \in Range(done.methods) |->
                                            Cardinality({i \in 1..Len(done.methods) :
                                                            done.methods[i] = m})],
             errors                |-> done.errors,
             raw_texts             |-> done.raw_texts]]

HasDuplicateLabels(t) == Len(t.cols) # Cardinality(ColSet(t))

ConstColumn(t, name, x) ==
    SetColumn(t, name, "object", [r \in 1..Len(t.rows) |-> x])

\* pd.concat refuses to align tables whose labels differ when one of them
\* holds a label twice
merge_structured_and_unstructured(s_df, u_df) ==
    IF IsEmpty(u_df) THEN s_df
    ELSE IF IsEmpty(s_df) THEN u_df
    ELSE LET s2 == ConstColumn(s_df, col_data_source_type, Text("structured"))
             u2 == ConstColumn(u_df, col_data_source_type, Text("unstructured"))
         IN  IF (HasDuplicateLabels(s2) \/ HasDuplicateLabels(u2)) /\ s2.cols # u2.cols
             THEN Raise("InvalidIndexError: Reindexing only valid with uniquely valued Index objects")
             ELSE pd_concat(<<s2, u2>>)

(***************************************************************************)
(* ingest_data (ingest.py:154-303).  The upload directory holds its files  *)
(* by extension, each list in the order glob yields.                       *)
(***************************************************************************)
NormalizeColumns(t) ==
    [t EXCEPT !.cols = [j \in 1..Len(t.cols) |-> normalize_column_name(t.cols[j])]]

\* DataFrame.to_parquet: the parquet writer refuses a table that holds a
\* label twice
to_parquet(t) ==
    IF HasDuplicateLabels(t) THEN Raise("ValueError: Duplicate column names found")
    ELSE t

\* the final merge without the fatal check
no_check(s_df, u_df) == FALSE

\* the fatal check before the final merge
no_processable_files(s_df, u_df) == IsEmpty(s_df) /\ IsEmpty(u_df)

\* the loops with a reader's error swallowed: the file is left out
RECURSIVE ReadAllSkipping(_, _, _)
ReadAllSkipping(files, kind, acc) ==
    IF files = <<>> THEN acc
    ELSE LET f == Head(files)
             t == IF kind = "csv" THEN read_csv_file(f) ELSE read_json_file(f)
         IN  IF IsRaise(t) THEN ReadAllSkipping(Tail(files), kind, acc)
             ELSE ReadAllSkipping(Tail(files), kind,
                    [structured_dfs |-> Append(acc.structured_dfs, t),
                     file_stats |-> Append(acc.file_stats,
                        [filename |-> f.name, type |-> kind, category |-> "structured",
                         rows |-> NRows(t), columns |-> NCols(t)])])

\* the tables read from the structured files, up to the first that raises
RECURSIVE ReadAll(_, _, _)
ReadAll(files, kind, acc) ==
    IF files = <<>> \/ IsRaise(acc) THEN acc
    ELSE LET f == Head(files)
             t == IF kind = "csv" THEN read_csv_file(f) ELSE read_json_file(f)
         IN  IF IsRaise(t) THEN t
             ELSE ReadAll(Tail(files), kind,
                    [structured_dfs |-> Append(acc.structured_dfs, t),
                     file_stats |-> Append(acc.file_stats,
                        [filename |-> f.name, type |-> kind, category |-> "structured",
                         rows |-> NRows(t), columns |-> NCols(t)])])

UnstructuredStats(files, u_df) ==
    [i \in 1..Len(files) |->
        [filename |-> files[i].name,
         type     |-> files[i].type,
         category |-> "unstructured",
         rows     |-> 1,
         columns  |-> IF ~IsEmpty(u_df) THEN NCols(u_df) ELSE 0]]

\* dict(zip(original_columns, structured_df.columns))
ColumnMapping(original, renamed) ==
    [c_ \in Range(original) |->
        renamed[MaxOf({j \in 1..Len(original) : original[j] = c_})]]

Failed(e, s_df, u_df, m_df) ==
    [result |-> e, structured_df |-> s_df, unstructured_df |-> u_df,
     merged_df |-> m_df, file |-> <<>>]

\* ingest_data from the final merge on: the merged table with its column
\* names normalized again, the parquet file and the result
IngestMerged(dir, read, unstructured_files, merged_structured, processed, s_df, u_df, combined) ==
    LET m_df == NormalizeColumns(combined)
        written == to_parquet(m_df)
        file_stats == read.file_stats \o
                      (IF unstructured_files # <<>>
                       THEN UnstructuredStats(unstructured_files, u_df) ELSE <<>>)
    IN  IF IsRaise(combined) THEN Failed(combined, s_df, u_df, <<>>)
        ELSE IF IsRaise(written) THEN Failed(written, s_df, u_df, m_df)
        ELSE [result |->
                [status                   |-> "success",
                 output_path              |-> "ingested_<upload_id>.parquet",
                 files_processed          |-> file_stats,
                 rows                     |-> NRows(m_df),
                 columns                  |-> NCols(m_df),
                 column_names             |-> m_df.cols,
                 column_mapping           |-> IF read.structured_dfs # <<>>
                                              THEN ColumnMapping(merged_structured.cols,
                                                                 s_df.cols)
                                              ELSE <<>>,
                 structured_files_count   |-> Len(dir.csv) + Len(dir.json),
                 unstructured_files_count |-> Len(unstructured_files),
                 unstructured_summary     |-> IF unstructured_files # <<>>
                                              THEN processed.processing_summary ELSE <<>>],
              structured_df |-> s_df, unstructured_df |-> u_df,
              merged_df |-> m_df, file |-> written]

\* ingest_data once the structured files are read: the structured and the
\* unstructured table, and the check that one of them holds data
IngestTables(dir, read, unstructured_files, merged_structured, processed) ==
    LET s_df == IF read.structured_dfs # <<>>
                THEN NormalizeColumns(merged_structured) ELSE EmptyFrame
        u_df == IF unstructured_files # <<>> THEN processed.combined_df ELSE EmptyFrame
    IN  IF no_processable_files(s_df, u_df)
        THEN Failed(Raise("ValueError: No processable files found"), s_df, u_df, <<>>)
        ELSE IngestMerged(dir, read, unstructured_files, merged_structured, processed,
                          s_df, u_df, merge_structured_and_unstructured(s_df, u_df))

\* what ingest_data returns or raises, the tables it builds on the way and
\* the parquet file it writes
ingest_data(dir) ==
    LET unstructured_files == dir.txt \o dir.pdf \o dir.md
        read == ReadAll(dir.json, "json",
                        ReadAll(dir.csv, "csv", [structured_dfs |-> <<>>, file_stats |-> <<>>]))
    IN  IF ~dir.exists
        THEN Failed(Raise("FileNotFoundError: Upload directory not found"), <<>>, <<>>, <<>>)
        ELSE IF IsRaise(read) THEN Failed(read, <<>>, <<>>, <<>>)
        ELSE IngestTables(dir, read, unstructured_files,
                          merge_dataframes(read.structured_dfs),
                          process_unstructured_files(unstructured_files))

(***************************************************************************)
(* transform_data (transform.py:22-131, 312-379).  The time and            *)
(* categorical aggregation tables, written beside the transformed table,   *)
(* are not held.                                                           *)
(***************************************************************************)
datetime_keywords ==
    << <<"d","a","t","e">>,
       <<"t","i","m","e","s","t","a","m","p">>,
       <<"c","r","e","a","t","e","d","_","a","t">>,
       <<"u","p","d","a","t","e","d","_","a","t">>,
       <<"s","t","a","r","t","_","d","a","t","e">>,
       <<"e","n","d","_","d","a","t","e">>,
       <<"d","a","t","e","t","i","m","e">> >>
exclude_keywords ==
    << <<"s","p","e","n","d">>,
       <<"r","e","v","e","n","u","e">>,
       <<"c","o","s","t">>,
       <<"p","r","i","c","e">>,
       <<"a","m","o","u","n","t">>,
       <<"c","l","i","c","k","s">>,
       <<"i","m","p","r","e","s","s","i","o","n","s">>,
       <<"c","o","n","v","e","r","s","i","o","n","s">>,
       <<"t","r","a","f","f","i","c">>,
       <<"v","i","s","i","t","o","r","s">>,
       <<"t","e","m","p">>,
       <<"t","e","m","p","e","r","a","t","u","r","e">>,
       <<"r","a","t","e">>,
       <<"c","t","r">>,
       <<"c","p","c">>,
       <<"c","p","m">> >>
prefix_date == <<"d","a","t","e","_">>

AnyIn(keywords, s_) == \E i \in 1..Len(keywords) : Contains(s_, keywords[i])

detect_datetime_columns(t) ==
    SelectSeq(t.cols, LAMBDA c_ :
        /\ ~AnyIn(exclude_keywords, Lower(c_))
        /\ DtypeOf(t, c_) # "num"
        /\ \/ AnyIn(datetime_keywords, Lower(c_))
           \/ Lower(c_) = col_date
           \/ StartsWith(Lower(c_), prefix_date))

\* pd.to_datetime(series, errors='coerce') on one cell: a date text gives
\* its day, any other text NaT, a number the epoch, day 0
to_datetime(x) ==
    IF x = NaN THEN NaN
    ELSE IF IsText(x) THEN (IF x[1] = "d" THEN Val(x[2]) ELSE NaN)
    ELSE Val(0)

RECURSIVE parse_datetime_columns(_, _)
parse_datetime_columns(t, columns) ==
    IF columns = <<>> THEN t
    ELSE LET c_ == Head(columns)
             parsed == IF DtypeOf(t, c_) = "datetime" THEN Column(t, c_)
                       ELSE [r \in 1..Len(t.rows) |-> to_datetime(Column(t, c_)[r])]
         IN  parse_datetime_columns(
                IF c_ \in ColSet(t) THEN SetColumn(t, c_, "datetime", parsed) ELSE t,
                Tail(columns))

\* the numbers of the cells in ascending order
RECURSIVE SortedVals(_)
SortedVals(cells) ==
    IF cells = <<>> THEN <<>>
    ELSE LET i == CHOOSE k \in 1..Len(cells) :
                    \A j \in 1..Len(cells) : cells[k][1] <= cells[j][1]
         IN  <<cells[i][1]>> \o
             SortedVals([j \in 1..(Len(cells) - 1) |->
                            IF j < i THEN cells[j] ELSE cells[j + 1]])

\* the number n / 2 for an odd n: a median between two integers
Half(n) == <<"half", n>>

\* Series.median(): NaN when every cell is missing
median(cells) ==
    LET v == SortedVals(DropNa(cells))
        n == Len(v)
    IN  IF n = 0 THEN NaN
        ELSE IF n % 2 = 1 THEN Val(v[(n + 1) \div 2])
        ELSE IF (v[n \div 2] + v[n \div 2 + 1]) % 2 = 0
        THEN Val((v[n \div 2] + v[n \div 2 + 1]) \div 2)
        ELSE Half(v[n \div 2] + v[n \div 2 + 1])

\* Series.ffill() alone: the cells before the first one that is not missing
\* stay missing
ffill(cells) ==
    [r \in 1..Len(cells) |->
        LET before == {j \in 1..r : cells[j] # NaN}
        IN  IF before # {} THEN cells[MaxOf(before)] ELSE NaN]

\* Series.ffill().bfill(): a missing cell takes the last cell before it that
\* is not missing, or else the first one after it
ffill_bfill(cells) ==
    [r \in 1..Len(cells) |->
        LET before == {j \in 1..r : cells[j] # NaN}
            after == {j \in r..Len(cells) : cells[j] # NaN}
        IN  IF before # {} THEN cells[MaxOf(before)]
            ELSE IF after # {} THEN cells[CHOOSE j \in after : \A k \in after : j <= k]
            ELSE NaN]

\* the texts of the tables in the order Python sorts them
text_order == <<"Unknown", "d.txt", "e.txt", "f.pdf", "g.md", "regex",
                "structured", "unstructured">>

TextRank(w) == CHOOSE i \in 1..Len(text_order) : text_order[i] = w

\* the order of the cells of an object column: a date text before any
\* other text
ObjectLess(x, y) ==
    IF x[1] = "d" THEN (y[1] # "d" \/ x[2] < y[2])
    ELSE y[1] # "d" /\ TextRank(x[2]) < TextRank(y[2])

\* Series.mode(): the most frequent cells that are not missing, sorted
mode(cells) ==
    LET data == DropNa(cells)
        freq(x) == Cardinality({j \in 1..Len(data) : data[j] = x})
        top == {x \in Range(data) : \A y \in Range(data) : freq(y) <= freq(x)}
    IN  IF Cardinality(top) <= 1 THEN top
        ELSE {CHOOSE x \in top : \A y \in top \ {x} : ObjectLess(x, y)}

\* df.dropna(): the rows that hold a missing cell are removed
drop_missing_rows(t) ==
    FilterRows(t, {r \in 1..Len(t.rows) :
                     \A j \in 1..Len(t.cols) : t.rows[r][j] # NaN})

FillNa(cells, x) == [r \in 1..Len(cells) |-> IF cells[r] = NaN THEN x ELSE cells[r]]

\* one column of handle_missing_values
FillColumn(cells, dtype) ==
    IF \A r \in 1..Len(cells) : cells[r] # NaN THEN cells
    ELSE IF dtype = "num" THEN FillNa(cells, median(cells))
    ELSE IF dtype = "datetime" THEN ffill_bfill(cells)
    ELSE IF mode(cells) # {} THEN FillNa(cells, CHOOSE x \in mode(cells) : TRUE)
    ELSE FillNa(cells, Text("Unknown"))

handle_missing_values(t) ==
    [t EXCEPT !.rows =
        [r \in 1..Len(t.rows) |->
            [j \in 1..Len(t.cols) |->
                FillColumn([q \in 1..Len(t.rows) |-> t.rows[q][j]], t.dtypes[j])[r]]]]

\* df.isna().sum().sum()
CountNa(t) ==
    Cardinality({<<r, j>> \in (1..Len(t.rows)) \X (1..Len(t.cols)) : t.rows[r][j] = NaN})

\* what transform_data returns and the parquet file it writes
transform_data(file) ==
    LET datetime_cols == detect_datetime_columns(file)
        parsed == parse_datetime_columns(file, datetime_cols)
        filled == handle_missing_values(parsed)
        out == compute_derived_metrics(filled)
        written == to_parquet(out)
    IN  IF IsRaise(written) THEN [result |-> written, file |-> <<>>]
        ELSE [result |->
                [status                  |-> "success",
                 output_path             |-> "transformed_data.parquet",
                 original_shape          |-> <<NRows(file), NCols(file)>>,
                 transformed_shape       |-> <<NRows(out), NCols(out)>>,
                 datetime_columns_parsed |-> datetime_cols,
                 missing_values_handled  |-> CountNa(parsed) - CountNa(filled),
                 derived_metrics_added   |-> NCols(out) - NCols(file),
                 columns                 |-> out.cols],
              file |-> written]

(***************************************************************************)
(* compute_basic_kpis, compute_summary_statistics and compute_kpis         *)
(* (kpis.py:23-97, 299-371).  A key of basic_metrics is the label it       *)
(* spells.  A value is a cell, in the unit of its column or, when rounded, *)
(* as a count of its last decimal place; a mean is the pair <<sum, count>>.*)
(* Of the KPI bundle the sections top_performers and correlations are not  *)
(* held.                                                                   *)
(***************************************************************************)
prefix_total == <<"t","o","t","a","l","_">>
prefix_avg == <<"a","v","g","_">>
prefix_max == <<"m","a","x","_">>
prefix_min == <<"m","i","n","_">>
prefix_overall == <<"o","v","e","r","a","l","l","_">>

\* a dict built by the assignments <<key, value>> in turn
DictOf(entries) ==
    [key \in {entries[i][1] : i \in 1..Len(entries)} |->
        entries[MaxOf({i \in 1..Len(entries) : entries[i][1] = key})][2]]

\* round(n / d * factor, 4) if d > 0 else 0
RatioOrZero(n, d, factor) ==
    IF d > 0 THEN Val(RoundDiv(n * factor * 10000, d)) ELSE Val(0)

\* total_, avg_, max_, min_ of one numeric column
ColumnKpis(t, c_) ==
    LET cells == Column(t, c_)
        n == Len(DropNa(cells))
    IN  << <<prefix_total \o c_, Val(SumCells(cells))>>,
           <<prefix_avg \o c_, IF n = 0 THEN NaN ELSE <<SumCells(cells), n>> >>,
           <<prefix_max \o c_, IF n = 0 THEN NaN ELSE Val(MaxCell(cells))>>,
           <<prefix_min \o c_, IF n = 0 THEN NaN ELSE Val(MinCell(cells))>> >>

compute_basic_kpis(t) ==
    LET has(c_) == c_ \in ColSet(t)
        sum(c_) == SumCells(Column(t, c_))
        when(cond, entries) == IF cond THEN entries ELSE <<>>
        numeric_cols == NumericCols(t)
    IN  DictOf(
          FlattenSeq([i \in 1..Len(numeric_cols) |-> ColumnKpis(t, numeric_cols[i])])
          \o when(has(col_impressions),
                  << <<prefix_total \o col_impressions, Val(sum(col_impressions))>> >>)
          \o when(has(col_impressions) /\ has(col_clicks),
                  << <<prefix_total \o col_clicks, Val(sum(col_clicks))>>,
                     <<prefix_overall \o col_ctr,
                       RatioOrZero(sum(col_clicks), sum(col_impressions), 100)>> >>)
          \o when(has(col_spend),
                  << <<prefix_total \o col_spend, Val(Round2(sum(col_spend), 1))>> >>)
          \o when(has(col_spend) /\ has(col_clicks),
                  << <<prefix_overall \o col_cpc,
                       RatioOrZero(sum(col_spend), sum(col_clicks), 1)>> >>)
          \o when(has(col_spend) /\ has(col_impressions),
                  << <<prefix_overall \o col_cpm,
                       RatioOrZero(sum(col_spend), sum(col_impressions), 1000)>> >>)
          \o when(has(col_conversions),
                  << <<prefix_total \o col_conversions, Val(sum(col_conversions))>> >>)
          \o when(has(col_conversions) /\ has(col_clicks),
                  << <<prefix_overall \o col_conversion_rate,
                       RatioOrZero(sum(col_conversions), sum(col_clicks), 100)>> >>)
          \o when(has(col_conversions) /\ has(col_spend),
                  << <<prefix_overall \o col_cpa,
                       RatioOrZero(sum(col_spend), sum(col_conversions), 1)>> >>)
          \o when(has(col_revenue),
                  << <<prefix_total \o col_revenue, Val(Round2(sum(col_revenue), 1))>> >>)
          \o when(has(col_revenue) /\ has(col_spend),
                  << <<prefix_overall \o col_roas,
                       RatioOrZero(sum(col_revenue), sum(col_spend), 1)>> >>)
          \o when(has(col_visits),
                  << <<prefix_total \o col_visits, Val(sum(col_visits))>> >>)
          \o when(has(col_unique_visitors),
                  << <<prefix_total \o col_unique_visitors, Val(sum(col_unique_visitors))>> >>)
          \o when(has(col_foot_traffic),
                  << <<prefix_total \o col_foot_traffic, Val(sum(col_foot_traffic))>> >>))

compute_summary_statistics(t) ==
    LET cells == NRows(t) * NCols(t)
        datetime_cols == DatetimeCols(t)
        dates == Column(t, datetime_cols[1])
        summary ==
            [total_rows          |-> NRows(t),
             total_columns       |-> NCols(t),
             numeric_columns     |-> Len(NumericCols(t)),
             categorical_columns |-> Len(SelectSeq(t.cols,
                                        LAMBDA x : DtypeOf(t, x) = "object")),
             datetime_columns    |-> Len(datetime_cols),
             missing_values      |-> CountNa(t),
             missing_percentage  |-> IF cells = 0 THEN NaN
                                     ELSE Val(Round2(CountNa(t) * 100, cells))]
    IN  IF datetime_cols = <<>> THEN summary
        ELSE [k \in DOMAIN summary \cup {"date_range_start", "date_range_end", "total_days"} |->
                IF k = "date_range_start" THEN MinCell(dates)
                ELSE IF k = "date_range_end" THEN MaxCell(dates)
                ELSE IF k = "total_days" THEN MaxCell(dates) - MinCell(dates)
                ELSE summary[k]]

(***************************************************************************)
(* identify_top_performers (kpis.py:100-136).  The key                     *)
(* f'top_{cat_col}_by_{metric}' is <<cat_col, metric>>.  The entries of a  *)
(* key are held as a set: their order (by value, largest first) is not     *)
(* held, and the tables checked have at most n groups.                     *)
(***************************************************************************)
metric_cols ==
    <<col_impressions, col_clicks, col_conversions, col_revenue, col_spend,
      col_visits, col_foot_traffic, col_ctr, col_conversion_rate, col_roas>>

\* df.select_dtypes(include=['object', 'category']).columns.tolist()
CategoricalCols(t) == SelectSeq(t.cols, LAMBDA x : DtypeOf(t, x) = "object")

\* df.groupby(cat_col)[metric].sum(): rows with a missing cat_col are left out
GroupSums(t, cat_col, metric) ==
    {[name  |-> g,
      value |-> Round2(SumCells(Column(FilterRows(t, {r \in 1..Len(t.rows) :
                                          Column(t, cat_col)[r] = g}), metric)), 1)] :
        g \in Range(DropNa(Column(t, cat_col)))}

\* the sum of a metric that is no number column raises in nlargest, or
\* before it; the exception is caught and the key left out
identify_top_performers(t) ==
    LET keys == {<<cat_col, metric>> :
                    cat_col \in {x \in Range(CategoricalCols(t)) :
                                    Cardinality(Range(DropNa(Column(t, x)))) > 1},
                    metric \in {m \in Range(metric_cols) :
                                    m \in ColSet(t) /\ DtypeOf(t, m) = "num"}}
    IN  [k \in keys |-> GroupSums(t, k[1], k[2])]

(***************************************************************************)
(* compute_correlations (kpis.py:240-294).  Pearson's r of two columns,    *)
(* over the rows where both cells are numbers, is held by num, dx and dy   *)
(* with r = num / sqrt(dx * dy): num = n*Sxy - Sx*Sy, dx = n*Sxx - Sx*Sx,  *)
(* dy = n*Syy - Sy*Sy; the value rounded to 4 places is not held.  r does  *)
(* not change when a column is shifted or scaled, so each column is first  *)
(* shifted to start at 0 and divided by the gcd of its values, which       *)
(* keeps the integers small.  A key that names no column pair is           *)
(* <<NoLabel, NoLabel, key>>, the key f'{w_col}_vs_{t_col}' is             *)
(* <<w_col, t_col, "vs">>.                                                 *)
(***************************************************************************)
RECURSIVE Gcd(_, _)
Gcd(a, b) == IF b = 0 THEN a ELSE Gcd(b, a % b)
Abs(a) == IF a < 0 THEN -a ELSE a

RECURSIVE GcdSeq(_)
GcdSeq(ns) == IF ns = <<>> THEN 0 ELSE Gcd(Head(ns), GcdSeq(Tail(ns)))

\* the numbers ns shifted to start at 0 and divided by their gcd
Reduced(ns) ==
    LET lo == CHOOSE m \in Range(ns) : \A x \in Range(ns) : m <= x
        shifted == [i \in 1..Len(ns) |-> ns[i] - lo]
        g == GcdSeq(shifted)
    IN  IF g = 0 THEN shifted ELSE [i \in 1..Len(ns) |-> shifted[i] \div g]

\* r from the reduced columns
PearsonOf(n, xs, ys) ==
    LET S(f(_)) == SumSeq([i \in 1..n |-> f(i)])
        X(i)  == xs[i]
        Y(i)  == ys[i]
        XX(i) == xs[i] * xs[i]
        YY(i) == ys[i] * ys[i]
        XY(i) == xs[i] * ys[i]
        num  == n * S(XY) - S(X) * S(Y)
        dx   == n * S(XX) - S(X) * S(X)
        dy   == n * S(YY) - S(Y) * S(Y)
    IN  IF dx = 0 \/ dy = 0 THEN NaN ELSE [num |-> num, dx |-> dx, dy |-> dy]

w_weather == <<"w","e","a","t","h","e","r">>
w_temp == <<"t","e","m","p">>
w_traffic == <<"t","r","a","f","f","i","c">>
w_visit == <<"v","i","s","i","t">>

Pearson(xs, ys) ==
    LET both == SelectSeq([r \in 1..Len(xs) |-> r],
                          LAMBDA r : xs[r] # NaN /\ ys[r] # NaN)
        n    == Len(both)
    IN  IF n < 2 THEN NaN
        ELSE PearsonOf(n, Reduced([k \in 1..n |-> xs[both[k]][1]]),
                          Reduced([k \in 1..n |-> ys[both[k]][1]]))

\* r1 * r1 * q > r2 * r2 * p for r1, r2 held as above and p, q > 0, with the
\* common factors taken out before the products
SquareAbove(r1, q_, r2, p_) ==
    LET a1 == Abs(r1.num) \div Gcd(Abs(r1.num), r1.dx)
        b1 == r1.dx \div Gcd(Abs(r1.num), r1.dx)
        a2 == Abs(r1.num) \div Gcd(Abs(r1.num), r1.dy)
        b2 == r1.dy \div Gcd(Abs(r1.num), r1.dy)
        c1 == Abs(r2.num) \div Gcd(Abs(r2.num), r2.dx)
        d1 == r2.dx \div Gcd(Abs(r2.num), r2.dx)
        c2 == Abs(r2.num) \div Gcd(Abs(r2.num), r2.dy)
        d2 == r2.dy \div Gcd(Abs(r2.num), r2.dy)
    IN  a1 * a2 * d1 * d2 * q_ > c1 * c2 * b1 * b2 * p_

\* abs(r) > p / q
AbsAbove(r, p_, q_) ==
    r # NaN /\ SquareAbove(r, q_ * q_, [num |-> 1, dx |-> 1, dy |-> 1], p_ * p_)

\* the pair that sorts first by abs(correlation), largest first; the sort
\* is stable
RECURSIVE SortPairs(_)
SortPairs(pairs) ==
    IF pairs = <<>> THEN <<>>
    ELSE LET larger(a, b) == SquareAbove(a, 1, b, 1)
             i == CHOOSE k \in 1..Len(pairs) :
                    /\ \A j \in 1..Len(pairs) :
                          ~larger(pairs[j].correlation, pairs[k].correlation)
                    /\ \A j \in 1..(k - 1) :
                          larger(pairs[k].correlation, pairs[j].correlation)
         IN  <<pairs[i]>> \o
             SortPairs([j \in 1..(Len(pairs) - 1) |->
                          IF j < i THEN pairs[j] ELSE pairs[j + 1]])

compute_correlations(t) ==
    LET numeric == NumericCols(t)
        corr(c1, c2) == Pearson(Column(t, c1), Column(t, c2))
        upper == FlattenSeq([i \in 1..Len(numeric) |->
                    SelectSeq([j \in 1..Len(numeric) |-> <<i, j>>],
                              LAMBDA ij : ij[1] < ij[2])])
        significant ==
            SelectSeq(upper, LAMBDA ij : AbsAbove(corr(numeric[ij[1]], numeric[ij[2]]), 1, 2))
        significant_pairs ==
            [k \in 1..Len(significant) |->
                [column1     |-> numeric[significant[k][1]],
                 column2     |-> numeric[significant[k][2]],
                 correlation |-> corr(numeric[significant[k][1]], numeric[significant[k][2]]),
                 strength    |-> IF AbsAbove(corr(numeric[significant[k][1]],
                                                  numeric[significant[k][2]]), 7, 10)
                                 THEN "strong" ELSE "moderate"]]
        weather_cols == {x \in ColSet(t) : Contains(x, w_weather) \/ Contains(x, w_temp)}
        traffic_cols == {x \in ColSet(t) : Contains(x, w_traffic) \/ Contains(x, w_visit)}
        vs == {<<w_col, t_col, "vs">> :
                  w_col \in weather_cols \cap Range(numeric),
                  t_col \in traffic_cols \cap Range(numeric)}
        keys == {<<NoLabel, NoLabel, "significant_pairs">>,
                 <<NoLabel, NoLabel, "total_variables">>}
                \cup {k \in vs : corr(k[1], k[2]) # NaN}
    IN  IF Len(numeric) < 2 THEN <<>>
        ELSE [k \in keys |->
                CASE k[3] = "significant_pairs" -> FirstN(SortPairs(significant_pairs), 10)
                  [] k[3] = "total_variables" -> Len(numeric)
                  [] k[3] = "vs" -> corr(k[1], k[2])]

\* the sections of the bundle after period_comparison
KpiBundle(file, period_comparison) ==
    [basic_metrics     |-> compute_basic_kpis(file),
     top_performers    |-> identify_top_performers(file),
     period_comparison |-> period_comparison,
     anomalies         |-> detect_anomalies(file, threshold_default),
     correlations      |-> compute_correlations(file),
     summary           |-> compute_summary_statistics(file),
     data_snapshot     |-> [columns |-> file.cols, sample_values |-> FirstN(file.rows, 5)]]

\* an exception of compute_period_comparison ends compute_kpis
compute_kpis(file) ==
    IF NoValidDate(file) THEN compute_period_comparison(file)
    ELSE KpiBundle(file, compute_period_comparison(file))

(***************************************************************************)
(* SpecPipeline: one run of ingest_data, transform_data and compute_kpis   *)
(* on an upload directory, as run_pipeline calls them.  The directory      *)
(* holds CSV files (readable or not; with a date column and a metric, with *)
(* or without rows; or with two labels that normalize alike), JSON files   *)
(* (a list of records, a mapping with or without the key "data", a bare    *)
(* number), text, PDF and markdown files (readable or not) and files of    *)
(* other extensions.                                                       *)
(***************************************************************************)
MaxIngestRows == 2
MaxIngestDay == 3
ImpressionVals == {100, 200}

col_total_spend_raw == <<"T","o","t","a","l"," ","S","p","e","n","d">>
col_total_spend == <<"t","o","t","a","l","_","s","p","e","n","d">>

\* a table as pd.read_csv infers it: text columns are object, and every
\* column of a table without rows is object
CsvTable(cs, object_cols, rows) ==
    [cols   |-> cs,
     dtypes |-> [j \in 1..Len(cs) |->
                    IF rows = <<>> \/ cs[j] \in object_cols THEN "object" ELSE "num"],
     rows   |-> rows]

CsvFile(name, t) == [name |-> name, readable |-> TRUE, table |-> t]
UnreadableCsv(name) == [name |-> name, readable |-> FALSE, table |-> EmptyFrame]

\* a.csv: date, impressions
ImpressionsCsv(days, vals) ==
    CsvFile("a.csv", CsvTable(<<col_date, col_impressions>>, {col_date},
                              [r \in 1..Len(days) |-> <<DateText(days[r]), Val(vals[r])>>]))

\* a CSV of the days 1..n with the metric c_ = 10 * day
DailyCsv(name, c_, n) ==
    CsvFile(name, CsvTable(<<col_date, c_>>, {col_date},
                           [r \in 1..n |-> <<DateText(r), Val(10 * r)>>]))

\* one CSV that holds "Total Spend" and "total_spend"
TwoSpendsCsv ==
    CsvFile("a.csv", CsvTable(<<col_total_spend_raw, col_total_spend>>, {},
                              << <<Val(100), Val(200)>> >>))

\* two CSVs that share "date"; one holds "Total Spend", the other "total_spend"
SpendCsv(name, c_) ==
    CsvFile(name, CsvTable(<<col_date, c_>>, {col_date}, << <<DateText(1), Val(100)>> >>))

JsonList(name, t) == [name |-> name, json |-> "list", keys |-> <<>>, vals |-> <<>>, records |-> t]
JsonDict(name, keys, vals, t) ==
    [name |-> name, json |-> "dict", keys |-> keys, vals |-> vals, records |-> t]
JsonNumber(name) ==
    [name |-> name, json |-> "number", keys |-> <<>>, vals |-> <<>>, records |-> EmptyFrame]

VisitorRecords ==
    [cols   |-> <<col_date, col_unique_visitors>>,
     dtypes |-> <<"object", "num">>,
     rows   |-> << <<DateText(2), Val(10)>> >>]

w_Impressions == <<"I","m","p","r","e","s","s","i","o","n","s">>
w_Clicks == <<"C","l","i","c","k","s">>
w_CTR == <<"C","T","R">>

\* "Impressions: 12,000, Clicks: 300, CTR: 2.5%"
SpecText ==
    << Word(w_Impressions), Colon, Space,
       Num(12000, <<"1","2",",","0","0","0">>, <<"1","2">>, <<"0","0","0">>), Comma, Space,
       Word(w_Clicks), Colon, Space,
       Num(300, <<"3","0","0">>, <<"3","0","0">>, <<"3","0","0">>), Comma, Space,
       Word(w_CTR), Colon, Space,
       Dec(<<"2",".","5">>, <<"2">>, 5), Percent >>

\* "120 impressions, 30 clicks"
NumberFirstText ==
    << Num(120, <<"1","2","0">>, <<"1","2","0">>, <<"1","2","0">>), Space,
       Word(col_impressions), Comma, Space,
       Num(30, <<"3","0">>, <<"3","0">>, <<"3","0">>), Space,
       Word(col_clicks) >>

TextFile(name, suffix, type, text) ==
    [name |-> name, suffix |-> suffix, type |-> type, readable |-> TRUE, text |-> text]
UnreadableFile(name, suffix, type) ==
    [name |-> name, suffix |-> suffix, type |-> type, readable |-> FALSE, text |-> <<>>]

Directory(csv, json, txt, pdf, md, other) ==
    [exists |-> TRUE, csv |-> csv, json |-> json, txt |-> txt, pdf |-> pdf,
     md |-> md, other |-> other]

\* the CSV lists whose cells vary, the rows of a.csv in the order of their
\* dates
VariedCsvLists ==
    LET dated == UNION {{days \in [1..n -> 1..MaxIngestDay] :
                            \A i \in 1..(n - 1) : days[i] <= days[i + 1]} :
                        n \in 0..MaxIngestRows}
        impressions == {ImpressionsCsv(days, vals) :
                            <<days, vals>> \in UNION {{days} \X [1..Len(days) -> ImpressionVals] :
                                                      days \in dated}}
    IN  {<<a>> : a \in impressions}
        \cup {<<a, DailyCsv("b.csv", col_visits, n)>> :
                a \in impressions, n \in 0..MaxIngestRows}
        \cup {<<DailyCsv("a.csv", col_visits, n), DailyCsv("b.csv", col_unique_visitors, m)>> :
                n \in 0..MaxIngestRows, m \in 0..MaxIngestRows}

VariedTxtLists ==
    { <<>>,
      <<TextFile("d.txt", ".txt", "txt", SpecText)>>,
      <<TextFile("d.txt", ".txt", "txt", NumberFirstText)>>,
      <<TextFile("d.txt", ".txt", "txt", SpecText),
        TextFile("e.txt", ".txt", "txt", NumberFirstText)>> }

\* the lists whose kinds of file vary
CsvLists ==
    { <<>>,
      <<ImpressionsCsv(<<1>>, <<100>>)>>,
      <<TwoSpendsCsv>>,
      <<SpendCsv("a.csv", col_total_spend_raw), SpendCsv("b.csv", col_total_spend)>>,
      <<UnreadableCsv("a.csv")>>,
      <<ImpressionsCsv(<<1>>, <<100>>), UnreadableCsv("b.csv")>> }

JsonLists ==
    { <<>>,
      <<JsonDict("c.json", <<>>, <<>>, EmptyFrame)>>,
      <<JsonList("c.json", VisitorRecords)>>,
      <<JsonDict("c.json", <<col_data>>, <<NaN>>, VisitorRecords)>>,
      <<JsonNumber("c.json")>> }

TxtLists ==
    { <<>>,
      <<TextFile("d.txt", ".txt", "txt", SpecText)>>,
      <<UnreadableFile("d.txt", ".txt", "txt")>>,
      <<TextFile("d.txt", ".txt", "txt", SpecText), UnreadableFile("e.txt", ".txt", "txt")>> }

PdfLists ==
    { <<>>,
      <<UnreadableFile("f.pdf", ".pdf", "pdf")>>,
      <<TextFile("f.pdf", ".pdf", "pdf", NumberFirstText)>> }

MdLists ==
    { <<>>,
      <<TextFile("g.md", ".md", "md", <<Space>> \o NumberFirstText \o <<Space>>)>> }

Uploads ==
    {Directory(csv, <<>>, txt, <<>>, <<>>, 0) : csv \in VariedCsvLists, txt \in VariedTxtLists}
    \cup {Directory(csv, json, txt, pdf, md, 0) :
            csv \in CsvLists, json \in JsonLists, txt \in TxtLists,
            pdf \in PdfLists, md \in MdLists}
    \cup {Directory(<<>>, <<>>, txt, pdf, md, 1) :
            txt \in TxtLists, pdf \in PdfLists, md \in MdLists}
    \cup {[Directory(<<>>, <<>>, <<>>, <<>>, <<>>, 0) EXCEPT !.exists = FALSE]}

PipelineInit ==
    /\ PipeAlone
    /\ ppc = "upload"
    /\ upload \in Uploads
    /\ structured_df = <<>>
    /\ unstructured_df = <<>>
    /\ merged_df = <<>>
    /\ ingested = <<>>
    /\ ingested_file = <<>>
    /\ transformed = <<>>
    /\ transformed_file = <<>>
    /\ kpis = <<>>

\* Step 1: ingested = ingest_data(upload_id, DATA_DIR); an error ends the run
Ingest ==
    /\ ppc = "upload"
    /\ \E r \in {ingest_data(upload)} :
           /\ structured_df' = r.structured_df
           /\ unstructured_df' = r.unstructured_df
           /\ merged_df' = r.merged_df
           /\ ingested' = r.result
           /\ ingested_file' = r.file
           /\ ppc' = IF IsRaise(r.result) THEN "failed" ELSE "ingested"
    /\ UNCHANGED <<upload, transformed, transformed_file, kpis, notPipe>>

\* Step 2: transformed = transform_data(ingested["output_path"], DATA_DIR)
Transform ==
    /\ ppc = "ingested"
    /\ \E r \in {transform_data(ingested_file)} :
           /\ transformed' = r.result
           /\ transformed_file' = r.file
           /\ ppc' = IF IsRaise(r.result) THEN "failed" ELSE "transformed"
    /\ UNCHANGED <<upload, structured_df, unstructured_df, merged_df, ingested,
                   ingested_file, kpis, notPipe>>

\* Step 3: kpis = compute_kpis(transformed["output_path"])
ComputeKpis ==
    /\ ppc = "transformed"
    /\ \E k_ \in {compute_kpis(transformed_file)} :
           /\ kpis' = k_
           /\ ppc' = IF IsRaise(k_) THEN "failed" ELSE "kpis"
    /\ UNCHANGED <<upload, structured_df, unstructured_df, merged_df, ingested,
                   ingested_file, transformed, transformed_file, notPipe>>

PipelineNext == Ingest \/ Transform \/ ComputeKpis

SpecPipeline == PipelineInit /\ [][PipelineNext]_vars

\* a table that ingest_data has built, as against <<>> for one not reached
Built(x) == DOMAIN x # {}

StructuredFiles == Len(upload.csv) + Len(upload.json)
UnstructuredFiles == Len(upload.txt) + Len(upload.pdf) + Len(upload.md)
IngestSucceeded == ppc \in {"ingested", "transformed", "kpis"}

\* C2 (as claimed): for every upload, the table that ingest_data builds and
\* hands to the parquet writer holds pairwise distinct column names after
\* normalization, also when distinct raw labels normalize to the same
\* identifier and when unstructured extraction adds columns.
C2_PersistedColumnsDistinct ==
    /\ Built(merged_df) => ~HasDuplicateLabels(merged_df)
    /\ Built(structured_df) => ~HasDuplicateLabels(structured_df)
    /\ Built(ingested_file) => ~HasDuplicateLabels(ingested_file)

\* two readable CSVs that share the column "date", and a readable .txt file
\* that holds "Impressions: 12,000, Clicks: 300, CTR: 2.5%"
TwoCsvAndSpecText ==
    /\ Len(upload.csv) = 2
    /\ \A i \in 1..2 : upload.csv[i].readable /\ col_date \in ColSet(upload.csv[i].table)
    /\ \E i \in 1..Len(upload.txt) :
          upload.txt[i].readable /\ upload.txt[i].text = SpecText

total_impressions == prefix_total \o col_impressions

\* C8 (as claimed): end to end on two CSVs sharing a date column and a .txt
\* file holding "Impressions: 12,000, Clicks: 300, CTR: 2.5%", the
\* impressions count of the text is part of the impressions total:
\* basic_metrics.total_impressions >= 12000.
C8_TextImpressionsCounted ==
    (ppc = "kpis" /\ TwoCsvAndSpecText) =>
        /\ total_impressions \in DOMAIN kpis.basic_metrics
        /\ kpis.basic_metrics[total_impressions][1] >= 12000

\* transform_data adds and removes no rows, and summary.total_rows is the
\* row count of the transformed table
RowsKeptAfterIngest ==
    /\ ppc \in {"transformed", "kpis"} =>
          /\ NRows(transformed_file) = NRows(ingested_file)
          /\ transformed.original_shape[1] = transformed.transformed_shape[1]
    /\ ppc = "kpis" => kpis.summary.total_rows = NRows(transformed_file)

\* C9 (as claimed): when structured and unstructured files are ingested
\* together, the final table has (merged structured row count + number of
\* successfully processed unstructured files) rows; transform_data adds and
\* removes no rows; summary.total_rows equals the row count of the
\* transformed table.
C9_RowCountsPreserved ==
    /\ (IngestSucceeded /\ StructuredFiles >= 1 /\ UnstructuredFiles >= 1) =>
          NRows(ingested_file) = NRows(structured_df)
                                 + ingested.unstructured_summary.files_processed
    /\ RowsKeptAfterIngest

\* C9 (amended): as claimed when the merged structured table has at least
\* one column; a merged structured table without columns counts as empty
\* and its rows are left out of the final table.
C9_RowCountsPreservedAmended ==
    /\ (IngestSucceeded /\ StructuredFiles >= 1 /\ UnstructuredFiles >= 1) =>
          /\ NRows(ingested_file)
                = (IF NCols(structured_df) = 0 THEN 0 ELSE NRows(structured_df))
                  + ingested.unstructured_summary.files_processed
          /\ ingested.rows = NRows(ingested_file)
    /\ RowsKeptAfterIngest

\* two CSVs merged into three rows and two text files, both processed, at
\* the end of the run
C9_Witness ==
    /\ ppc = "kpis"
    /\ Len(upload.csv) = 2
    /\ UnstructuredFiles = 2
    /\ NRows(structured_df) = 3
    /\ ingested.unstructured_summary.files_processed = 2
    /\ NRows(ingested_file) = 5
    /\ kpis.summary.total_rows = 5

\* the structured readers raise nothing, and both the merged structured
\* table and the table of the unstructured rows are empty
NoDataFromAnyFile ==
    /\ ppc # "upload"
    /\ upload.exists
    /\ Built(structured_df) /\ IsEmpty(structured_df)
    /\ Built(unstructured_df) /\ IsEmpty(unstructured_df)

\* a directory that holds only files of other extensions, or only
\* unstructured files, none of which can be read
OnlyOtherOrFailingFiles ==
    /\ ppc # "upload"
    /\ upload.exists
    /\ StructuredFiles = 0
    /\ \A f \in Range(upload.txt \o upload.pdf \o upload.md) : ~f.readable

\* C10: ingest_data on an upload directory that yields no data from any
\* accepted extension raises the "No processable files" ValueError, writes
\* no ingested table and returns no success result.
C10_NoProcessableFilesIsFatal ==
    (NoDataFromAnyFile \/ OnlyOtherOrFailingFiles) =>
        /\ ppc = "failed"
        /\ IsRaise(ingested)
        /\ ingested.raise = "ValueError: No processable files found"
        /\ ~Built(ingested_file)
        /\ ~Built(merged_df)

\* a directory that holds only a file of another extension (.xlsx)
C10_Witness ==
    /\ ppc = "failed"
    /\ upload.exists
    /\ upload.other = 1
    /\ StructuredFiles = 0
    /\ UnstructuredFiles = 0
    /\ IsRaise(ingested)

(***************************************************************************)
(* SpecExtract: one call of process_unstructured_files on a batch of       *)
(* files, or one call of extract_structured_data_with_llm on a text, in a  *)
(* process with or without the API key and the client library.             *)
(***************************************************************************)
MaxBatch == 3

ExtractTexts == {SpecText, NumberFirstText}

w_West == <<"W","e","s","t">>
w_positive == <<"p","o","s","i","t","i","v","e">>

\* JSON objects of the service: the schema of the prompt, no key at all,
\* and "metrics": null
FullObject ==
    [metrics      |-> Dict(<< [name |-> col_impressions, scalar |-> 12000],
                              [name |-> col_clicks, numeric |-> FALSE, values |-> <<>>] >>),
     entities     |-> Dict(<< [name |-> key_regions, values |-> <<w_West>>] >>),
     key_findings |-> <<w_West>>,
     sentiment    |-> w_positive]
EmptyObject == [k \in {} |-> <<>>]
NullMetricsObject == [metrics |-> None]

Answers ==
    {Answer(o, <<>>) : o \in {"error", "timeout", "none", "text",
                              "list", "number", "string", "null"}}
    \cup {Answer("object", v) : v \in {FullObject, EmptyObject, NullMetricsObject}}

\* the i-th file of a batch, by kind
BatchFile(i, kind) ==
    IF kind = "txt" THEN TextFile(<<i, ".txt">>, ".txt", "txt", SpecText)
    ELSE IF kind = "pdf_unreadable" THEN UnreadableFile(<<i, ".pdf">>, ".pdf", "pdf")
    ELSE IF kind = "md" THEN TextFile(<<i, ".md">>, ".md", "md", NumberFirstText)
    ELSE TextFile(<<i, ".markdown">>, ".markdown", "md", SpecText)

BatchKinds == {"txt", "pdf_unreadable", "md", "markdown"}

Batches ==
    UNION {{[i \in 1..n |-> BatchFile(i, kinds[i])] : kinds \in [1..n -> BatchKinds]} :
           n \in 0..MaxBatch}

ExtractInit ==
    /\ ExtractAlone
    /\ xpc = "input"
    /\ \/ /\ \E e \in {<<FALSE, FALSE>>, <<FALSE, TRUE>>, <<TRUE, FALSE>>} :
                api_key = e[1] /\ OPENAI_AVAILABLE = e[2]
          /\ service = [t \in ExtractTexts |-> Answer("error", <<>>)]
       \/ /\ api_key = TRUE
          /\ OPENAI_AVAILABLE = TRUE
          /\ \E a \in Answers, b \in {Answer("timeout", <<>>), Answer("object", FullObject)} :
                service = [t \in ExtractTexts |-> IF t = SpecText THEN a ELSE b]
    /\ batch \in Batches
    /\ batch_result = <<>>
    /\ extract_text = <<>>
    /\ extract_result = <<>>
    /\ row_df = <<>>

\* one call of process_unstructured_files(file_paths)
ProcessBatch ==
    /\ xpc = "input"
    /\ batch_result' = process_unstructured_files(batch)
    /\ xpc' = "done"
    /\ UNCHANGED <<api_key, OPENAI_AVAILABLE, service, batch, extract_text,
                   extract_result, row_df, notExtract>>

\* one call of extract_structured_data_with_llm(text)
Extract ==
    /\ xpc = "input"
    /\ \E text \in ExtractTexts :
          /\ extract_text' = text
          /\ extract_result' = extract_structured_data_with_llm(text)
    /\ xpc' = "extracted"
    /\ UNCHANGED <<api_key, OPENAI_AVAILABLE, service, batch, batch_result, row_df,
                   notExtract>>

w_report_txt == <<"r","e","p","o","r","t",".","t","x","t">>

\* one call of convert_unstructured_to_dataframe(extracted_data, source_file)
\* on the Extraction Result of the text
Convert ==
    /\ xpc = "extracted"
    /\ row_df' = convert_unstructured_to_dataframe(extract_result, w_report_txt)
    /\ xpc' = "converted"
    /\ UNCHANGED <<api_key, OPENAI_AVAILABLE, service, batch, batch_result,
                   extract_text, extract_result, notExtract>>

ExtractNext == ProcessBatch \/ Extract \/ Convert

SpecExtract == ExtractInit /\ [][ExtractNext]_vars

\* a file of the batch that fails to read, or whose extracted data cannot be
\* turned into a row
FailsToRead(f) == IsRaise(ReadUnstructured(f))
FailsToExtract(f) ==
    /\ ~FailsToRead(f)
    /\ IsRaise(convert_unstructured_to_dataframe(
                  extract_structured_data_with_llm(ReadUnstructured(f).content), f.name))
FailedFiles == {i \in 1..Len(batch) : FailsToRead(batch[i]) \/ FailsToExtract(batch[i])}

\* C11: process_unstructured_files never aborts the batch.  For every list
\* of .txt/.pdf/.md/.markdown files and every subset of them that fail to
\* read or extract, it returns normally, files_processed + files_failed is
\* the number of files, the errors hold exactly one entry per failed file,
\* naming it, and the combined table holds exactly one row per processed
\* file and none for a failed file, also for the files after a failed one.
C11_BatchNeverAborts ==
    xpc = "done" =>
        LET summary == batch_result.processing_summary
            combined == batch_result.combined_df
            failed == FailedFiles
            sources == IF IsEmpty(combined) THEN <<>>
                       ELSE Column(combined, col_source_file)
            rows_of(i) == {r \in 1..Len(sources) : sources[r] = Text(batch[i].name)}
        IN  /\ ~IsRaise(batch_result)
            /\ summary.files_processed + summary.files_failed = Len(batch)
            /\ summary.files_failed = Cardinality(failed)
            /\ Len(summary.errors) = Cardinality(failed)
            /\ \A i \in failed :
                  Cardinality({e \in 1..Len(summary.errors) :
                                  summary.errors[e].file = batch[i].name}) = 1
            /\ NRows(combined) = Len(batch) - Cardinality(failed)
            /\ \A i \in 1..Len(batch) :
                  Cardinality(rows_of(i)) = IF i \in failed THEN 0 ELSE 1

\* a batch of three: the first file cannot be read, the data extracted from
\* the second cannot be turned into a row, the third is processed
C11_Witness ==
    /\ xpc = "done"
    /\ Len(batch) = 3
    /\ FailsToRead(batch[1])
    /\ FailsToExtract(batch[2])
    /\ FailedFiles = {1, 2}
    /\ batch_result.processing_summary.files_processed = 1
    /\ NRows(batch_result.combined_df) = 1

\* the service is called: the API key is set and the client library is there
ServiceCalled == api_key /\ OPENAI_AVAILABLE

\* C12: extract_structured_data_with_llm never raises and its result's
\* method is llm, regex or regex_fallback: the regex result with method
\* regex without the credential or the client library, the regex result
\* with method regex_fallback on a transport error or an answer that is no
\* JSON object, and method llm only for a parsed JSON object.
C12_ExtractionAlwaysFallsBack ==
    xpc = "extracted" =>
        LET outcome == service[extract_text].outcome
        IN  /\ ~IsRaise(extract_result)
            /\ extract_result.method \in {"llm", "regex", "regex_fallback"}
            /\ ~ServiceCalled => extract_result = RegexResult(extract_text, "regex")
            /\ (ServiceCalled /\ outcome # "object") =>
                  extract_result = RegexResult(extract_text, "regex_fallback")
            /\ extract_result.method = "llm" =>
                  /\ ServiceCalled /\ outcome = "object"
                  /\ \A k \in DOMAIN service[extract_text].value :
                        extract_result[k] = service[extract_text].value[k]

\* the service answered with a JSON list, and the regex result came back
C12_Witness ==
    /\ xpc = "extracted"
    /\ ServiceCalled
    /\ service[extract_text].outcome = "list"
    /\ extract_result.method = "regex_fallback"
    /\ extract_result.metrics = extract_metrics_from_text(extract_text)

(***************************************************************************)
(* SpecReports, SpecRun: report generations (main_simple.py:62-145,        *)
(* 215-253).  generate_report runs on the event loop, run_pipeline as a    *)
(* background task on a worker thread; a run is cut where it reads or      *)
(* writes reports.json and where it waits for the service.  The report id  *)
(* and the upload id of run r are r.  Charts, insights and the report      *)
(* file (steps 4 to 6) are held as a step that succeeds or raises.         *)
(***************************************************************************)
Runs == {1, 2}

\* what steps 1 to 3 of run_pipeline come to on an upload directory
AfterKpis(i_, t_, k_) ==
    [error   |-> IF IsRaise(k_) THEN k_.raise ELSE "",
     files   |-> {"ingested_<upload_id>.parquet", "transformed_data.parquet"},
     methods |-> IF i_.result.unstructured_files_count > 0
                 THEN DOMAIN i_.result.unstructured_summary.extraction_methods ELSE {},
     rows    |-> IF IsRaise(k_) THEN 0 ELSE k_.summary.total_rows]
AfterTransform(i_, t_) ==
    IF IsRaise(t_.result)
    THEN [error |-> t_.result.raise, files |-> {"ingested_<upload_id>.parquet"},
          methods |-> {}, rows |-> 0]
    ELSE AfterKpis(i_, t_, compute_kpis(t_.file))
AfterIngest(i_) ==
    IF IsRaise(i_.result)
    THEN [error |-> i_.result.raise, files |-> {}, methods |-> {}, rows |-> 0]
    ELSE AfterTransform(i_, transform_data(i_.file))
PipelineSteps(dir) == AfterIngest(ingest_data(dir))

\* ingest_data reaches extract_structured_data_with_llm, and that calls the
\* service
READABLE(files) == {i \in 1..Len(files) : files[i].readable}
CallsService(dir) ==
    /\ ServiceCalled
    /\ dir.exists
    /\ ~IsRaise(ReadAll(dir.json, "json",
                        ReadAll(dir.csv, "csv", [structured_dfs |-> <<>>, file_stats |-> <<>>])))
    /\ READABLE(dir.txt \o dir.pdf \o dir.md) # {}
\* a text of the directory that the service never answers
Unanswered(dir) ==
    \E i \in READABLE(dir.txt) : service[dir.txt[i].text].outcome = "timeout"

\* metadata[report_id] = {...}                      (main_simple.py:233-242)
NewEntry(r) ==
    [upload_id |-> r, status |-> "pending", completed_at |-> <<>>,
     file_path |-> <<>>, error |-> ""]
WithEntry(m_, r, entry) == [k \in DOMAIN m_ \cup {r} |-> IF k = r THEN entry ELSE m_[k]]

\* the upload directories of two concurrent runs, and those of a single run
CsvAndText ==
    Directory(<<ImpressionsCsv(<<1>>, <<100>>)>>, <<>>,
              <<TextFile("d.txt", ".txt", "txt", SpecText)>>, <<>>, <<>>, 0)
ConcurrentUploads ==
    { CsvAndText,
      Directory(<<ImpressionsCsv(<<1>>, <<100>>), UnreadableCsv("b.csv")>>, <<>>,
                <<TextFile("d.txt", ".txt", "txt", SpecText)>>, <<>>, <<>>, 0) }
RunUploads ==
    ConcurrentUploads
    \cup { Directory(<<ImpressionsCsv(<<1>>, <<100>>)>>, <<>>, <<>>, <<>>, <<>>, 0),
           Directory(<<ImpressionsCsv(<<1>>, <<100>>)>>, <<JsonNumber("c.json")>>,
                     <<>>, <<>>, <<>>, 0),
           Directory(<<UnreadableCsv("a.csv"), ImpressionsCsv(<<1>>, <<100>>)>>,
                     <<JsonNumber("c.json")>>, <<>>, <<>>, <<>>, 0) }

\* n report generations are requested
RunInit(n) ==
    /\ RunAlone
    /\ xpc = "idle" /\ batch = <<>> /\ batch_result = <<>>
    /\ extract_text = <<>> /\ extract_result = <<>> /\ row_df = <<>>
    /\ \E e \in {<<FALSE, TRUE>>, <<TRUE, TRUE>>} :
          api_key = e[1] /\ OPENAI_AVAILABLE = e[2]
    /\ \E a \in {Answer("timeout", <<>>), Answer("object", FullObject)}
                  \cup (IF n = 1 THEN {Answer("text", <<>>), Answer("error", <<>>)} ELSE {}) :
          service = [t \in ExtractTexts |-> a]
    /\ reports = <<>>
    /\ rpc = [r \in Runs |-> IF r <= n THEN "request" ELSE "idle"]
    /\ metadata = [r \in Runs |-> <<>>]
    /\ run_upload \in [Runs -> IF n = 1 THEN RunUploads ELSE ConcurrentUploads]
    /\ \A r \in Runs : r > n => run_upload[r] = run_upload[1]
    /\ run_outcome = [r \in Runs |-> <<>>]
    /\ files_written = {}
    /\ attempt = [r \in Runs |-> 0]

\* generate_report: metadata = load_reports_metadata()  (main_simple.py:232);
\* the event loop runs one handler at a time
GenerateLoad(r) ==
    /\ rpc[r] = "request"
    /\ \A q \in Runs : rpc[q] # "g_loaded"
    /\ metadata' = [metadata EXCEPT ![r] = reports]
    /\ rpc' = [rpc EXCEPT ![r] = "g_loaded"]
    /\ UNCHANGED <<reports, run_upload, run_outcome, files_written, attempt, notRun>>

\* generate_report: the new entry, save_reports_metadata, add_task
GenerateSave(r) ==
    /\ rpc[r] = "g_loaded"
    /\ reports' = WithEntry(metadata[r], r, NewEntry(r))
    /\ rpc' = [rpc EXCEPT ![r] = "queued"]
    /\ UNCHANGED <<metadata, run_upload, run_outcome, files_written, attempt, notRun>>

\* run_pipeline: metadata = load_reports_metadata(); the assignment of the
\* status raises KeyError without the entry                 (93-94)
PipelineLoad(r) ==
    /\ rpc[r] = "queued"
    /\ metadata' = [metadata EXCEPT ![r] = reports]
    /\ rpc' = [rpc EXCEPT ![r] = IF r \in DOMAIN reports THEN "p_loaded" ELSE "failing"]
    /\ run_outcome' = [run_outcome EXCEPT ![r] =
                          IF r \in DOMAIN reports THEN @
                          ELSE [error |-> "KeyError", files |-> {}, methods |-> {}, rows |-> 0]]
    /\ UNCHANGED <<reports, run_upload, files_written, attempt, notRun>>

\* run_pipeline: status processing, save_reports_metadata   (94-95)
PipelineSave(r) ==
    /\ rpc[r] = "p_loaded"
    /\ reports' = [metadata[r] EXCEPT ![r].status = "processing"]
    /\ rpc' = [rpc EXCEPT ![r] = "ingest"]
    /\ UNCHANGED <<metadata, run_upload, run_outcome, files_written, attempt, notRun>>

\* step 1 up to the call of the service, if ingest_data comes to one
StartIngest(r) ==
    /\ rpc[r] = "ingest"
    /\ rpc' = [rpc EXCEPT ![r] = IF CallsService(run_upload[r]) THEN "waiting" ELSE "called"]
    /\ UNCHANGED <<reports, metadata, run_upload, run_outcome, files_written, attempt, notRun>>

\* the service answers: chat.completions.create returns or raises
CallReturns(r) ==
    /\ rpc[r] = "waiting"
    /\ ~Unanswered(run_upload[r])
    /\ rpc' = [rpc EXCEPT ![r] = "called"]
    /\ UNCHANGED <<reports, metadata, run_upload, run_outcome, files_written, attempt, notRun>>

\* the call waits for an answer without end
CallHangs(r) ==
    /\ rpc[r] = "waiting"
    /\ Unanswered(run_upload[r])
    /\ UNCHANGED vars

\* the service does not answer: the client ends the call with
\* APITimeoutError
CallTimesOut(r) ==
    /\ rpc[r] = "waiting"
    /\ Unanswered(run_upload[r])
    /\ rpc' = [rpc EXCEPT ![r] = "called"]
    /\ UNCHANGED <<reports, metadata, run_upload, run_outcome, files_written, attempt, notRun>>

\* steps 1 to 6: the tables are written beside the uploaded files, charts
\* and report under the report id                           (99-129)
RunSteps(r) ==
    /\ rpc[r] = "called"
    /\ \E core \in {PipelineSteps(run_upload[r])} :
           \E report_ok \in BOOLEAN :
              LET done == IF core.error = "" /\ ~report_ok
                          THEN [core EXCEPT !.error = "Exception: report generation"]
                          ELSE core
                  report_files ==
                      IF core.error = "" THEN {<<"reports", r, "charts">>}
                            \cup (IF report_ok THEN {<<"reports", r, "<report_id>.pdf">>}
                                  ELSE {})
                      ELSE {}
              IN  /\ run_outcome' = [run_outcome EXCEPT ![r] = done]
                  /\ files_written' = files_written
                        \cup {[path |-> <<"data", r, f>>, by |-> r] : f \in core.files}
                        \cup {[path |-> f, by |-> r] : f \in report_files}
                  /\ rpc' = [rpc EXCEPT ![r] =
                                IF done.error = "" THEN "finishing" ELSE "failing"]
    /\ UNCHANGED <<reports, metadata, run_upload, attempt, notRun>>

\* metadata = load_reports_metadata() at 132 or, in the except clause, at
\* 142; without the entry the assignment raises KeyError: at 133 that leads
\* to the except clause, at 143 it ends the task
FinalLoad(r) ==
    /\ rpc[r] \in {"finishing", "failing"}
    /\ metadata' = [metadata EXCEPT ![r] = reports]
    /\ rpc' = [rpc EXCEPT ![r] = IF r \in DOMAIN reports THEN "f_loaded"
                                 ELSE IF rpc[r] = "finishing" THEN "failing"
                                 ELSE "crashed"]
    /\ run_outcome' = [run_outcome EXCEPT ![r].error =
                          IF r \notin DOMAIN reports /\ rpc[r] = "finishing"
                          THEN "KeyError" ELSE @]
    /\ UNCHANGED <<reports, run_upload, files_written, attempt, notRun>>

\* status completed with the file path (133-136), or status failed with
\* the error text (143-145)
FinalSave(r) ==
    /\ rpc[r] = "f_loaded"
    /\ reports' = [metadata[r] EXCEPT ![r] =
                      IF run_outcome[r].error = ""
                      THEN [@ EXCEPT !.status = "completed",
                                     !.file_path = <<"reports", r, "<report_id>.pdf">>,
                                     !.completed_at = <<"now">>]
                      ELSE [@ EXCEPT !.status = "failed", !.error = run_outcome[r].error]]
    /\ rpc' = [rpc EXCEPT ![r] = "done"]
    /\ UNCHANGED <<metadata, run_upload, run_outcome, files_written, attempt, notRun>>

RunNext ==
    \E r \in Runs :
        \/ GenerateLoad(r) \/ GenerateSave(r) \/ PipelineLoad(r) \/ PipelineSave(r)
        \/ StartIngest(r) \/ CallReturns(r) \/ CallTimesOut(r) \/ RunSteps(r)
        \/ FinalLoad(r) \/ FinalSave(r)

SpecReports == RunInit(2) /\ [][RunNext]_vars

\* run r leaves steps 1 to 6: the steps of RunSteps(r), told by the position
StepsDone(r) ==
    /\ rpc[r] = "called"
    /\ \E v \in {"finishing", "failing"} : rpc' = [rpc EXCEPT ![r] = v]

\* one report generation: the event loop and the worker thread are
\* scheduled, the service's answer arrives, the client's timer runs
SpecRun ==
    /\ RunInit(1)
    /\ [][RunNext]_vars
    /\ WF_vars(GenerateLoad(1)) /\ WF_vars(GenerateSave(1))
    /\ WF_vars(PipelineLoad(1)) /\ WF_vars(PipelineSave(1))
    /\ WF_vars(StartIngest(1))
    /\ WF_vars(CallReturns(1)) /\ WF_vars(CallTimesOut(1))
    /\ WF_rpc(StepsDone(1))
    /\ WF_vars(FinalLoad(1)) /\ WF_vars(FinalSave(1))

\* the status of report r in reports.json
StatusOf(r) == IF r \in DOMAIN reports THEN reports[r].status ELSE "none"
PastSteps(r) == rpc[r] \in {"finishing", "f_loaded", "done"}

Registered(r) == rpc[r] \notin {"idle", "request", "g_loaded"}

\* C14: concurrent runs for different uploads share no mutable state.
\* Under every interleaving of two report generations no run loses what
\* the other wrote: an entry of reports.json, once saved, stays; the
\* status a finished run saved stays the one of its outcome; no run ends
\* on a missing entry; and every table and report path is written by one
\* run only.
C14_RunsShareNoState ==
    /\ \A r \in Runs : Registered(r) => r \in DOMAIN reports
    /\ \A r \in Runs :
          rpc[r] = "done" =>
              StatusOf(r) = (IF run_outcome[r].error = "" THEN "completed" ELSE "failed")
    /\ \A r \in Runs : rpc[r] # "crashed"
    /\ \A f, g \in files_written : f.path = g.path => f.by = g.by

\* the structured files of a directory that their reader refuses, CSV files
\* first as ingest_data reads them, and the error of the first of them
UnreadableStructured(dir) ==
    [i \in {j \in 1..Len(dir.csv) : ~dir.csv[j].readable} |-> read_csv_file(dir.csv[i])]
UnsupportedJson(dir) ==
    {i \in 1..Len(dir.json) : dir.json[i].json \notin {"list", "dict"}}
StructuredFailure(dir) ==
    dir.exists /\ (DOMAIN UnreadableStructured(dir) # {} \/ UnsupportedJson(dir) # {})
FirstStructuredError(dir) ==
    IF DOMAIN UnreadableStructured(dir) # {}
    THEN "ValueError: Could not read CSV file with any supported encoding"
    ELSE "ValueError: Unsupported JSON structure"

\* C16: a structured-file failure is fatal and not swallowed.  When one
\* CSV of the upload cannot be read under any encoding, or one JSON file
\* holds neither a list nor a mapping, ingest_data raises that error and
\* writes no table, the run builds nothing from the other files, and the
\* report status becomes 'failed' with the error text.
C16_StructuredFailureIsFatal ==
    StructuredFailure(run_upload[1]) =>
        /\ ingest_data(run_upload[1]).result = Raise(FirstStructuredError(run_upload[1]))
        /\ ingest_data(run_upload[1]).file = <<>>
        /\ \A f \in files_written : f.by # 1
        /\ rpc[1] \in {"failing", "f_loaded", "done"} =>
               /\ run_outcome[1].error = FirstStructuredError(run_upload[1])
               /\ run_outcome[1].rows = 0
        /\ rpc[1] \notin {"finishing", "crashed"}
        /\ rpc[1] = "done" =>
               /\ StatusOf(1) = "failed"
               /\ reports[1].error = FirstStructuredError(run_upload[1])

\* a run on an upload that holds a readable CSV beside the file that fails
\* has ended with status 'failed'
C16_Witness ==
    /\ rpc[1] = "done"
    /\ StructuredFailure(run_upload[1])
    /\ \E i \in 1..Len(run_upload[1].csv) : run_upload[1].csv[i].readable
    /\ StatusOf(1) = "failed"
    /\ reports[1].error = FirstStructuredError(run_upload[1])

(***************************************************************************)
(* SpecKpis: compute_kpis on a table as transform_data can write it: with  *)
(* or without a datetime column "date" (every date valid, or none: ffill   *)
(* and bfill leave no other case), with or without the text column         *)
(* "region", and with up to two of the number columns clicks, visits and   *)
(* temp; with up to MaxKpiRows rows.                                       *)
(***************************************************************************)
MaxKpiRows == 2
KpiDays == {1, 2, 3}
KpiVals == {1, 2}
w_East == <<"E","a","s","t">>
col_temp == <<"t","e","m","p">>

KpiNumericCols ==
    {<<>>, <<col_clicks>>, <<col_visits>>, <<col_clicks, col_visits>>,
     <<col_temp, col_visits>>}

KpiTable(dates, regions, numeric, vals) ==
    [cols   |-> (IF dates = <<>> THEN <<>> ELSE <<col_date>>)
                \o (IF regions = <<>> THEN <<>> ELSE <<col_region>>) \o numeric,
     dtypes |-> (IF dates = <<>> THEN <<>> ELSE <<"datetime">>)
                \o (IF regions = <<>> THEN <<>> ELSE <<"object">>)
                \o [j \in 1..Len(numeric) |-> "num"],
     rows   |-> [r \in 1..Len(vals) |->
                    (IF dates = <<>> THEN <<>> ELSE <<dates[r]>>)
                    \o (IF regions = <<>> THEN <<>> ELSE <<regions[r]>>)
                    \o vals[r]]]

\* the tables of n rows with the number columns numeric
KpiTables(n, numeric) ==
    { KpiTable(dates, regions, numeric, vals) :
        dates \in {<<>>, [r \in 1..n |-> NaN]} \cup [1..n -> {Val(d) : d \in KpiDays}],
        regions \in {<<>>} \cup [1..n -> {Text(w_West), Text(w_East)}],
        vals \in [1..n -> [1..Len(numeric) -> {Val(v) : v \in KpiVals}]] }

KpisInit ==
    /\ PipeAlone
    /\ ppc = "transformed"
    /\ upload = <<>>
    /\ structured_df = <<>>
    /\ unstructured_df = <<>>
    /\ merged_df = <<>>
    /\ ingested = <<>>
    /\ ingested_file = <<>>
    /\ transformed = <<>>
    /\ \E n \in 0..MaxKpiRows, numeric \in KpiNumericCols :
          transformed_file \in KpiTables(n, numeric)
    /\ kpis = <<>>

SpecKpis == KpisInit /\ [][ComputeKpis]_vars

\* the sections of the KPI Bundle
KpiSections ==
    {"basic_metrics", "top_performers", "period_comparison", "anomalies",
     "correlations", "summary"}

\* the branch of period_comparison does not run: no datetime column, or no
\* two days between the first and the last date
NoPeriodBranch(t) ==
    \/ DatetimeCols(t) = <<>>
    \/ \A x, y \in Range(DropNa(Column(t, DatetimeCols(t)[1]))) : y[1] - x[1] < 2

\* C15: the KPI Bundle is structurally stable.  For every input table
\* compute_kpis returns a bundle that holds the six sections, and a
\* section whose branch did not run (no datetime column or a span under 2
\* days; fewer than 2 number columns; no text column) is there as an
\* empty mapping.
C15_KpiBundleStable ==
    ppc \in {"kpis", "failed"} =>
        /\ ~IsRaise(kpis)
        /\ KpiSections \subseteq DOMAIN kpis
        /\ NoPeriodBranch(transformed_file) => kpis.period_comparison = <<>>
        /\ Len(NumericCols(transformed_file)) < 2 => kpis.correlations = <<>>
        /\ CategoricalCols(transformed_file) = <<>> => kpis.top_performers = <<>>

(***************************************************************************)
(* SpecRerun: ingest_data, transform_data and compute_kpis run twice on    *)
(* the same upload directory, with no API key (regex extraction).  The     *)
(* second run finds the parquet files of the first in the directory; it    *)
(* runs in the same process or in a fresh one, whose set iteration order   *)
(* is again any.                                                           *)
(***************************************************************************)
SetOrders == {"inserted", "reversed"}

w_and == <<"a","n","d">>

\* "West and East: 120 impressions, 30 clicks"
TwoRegionsText ==
    <<Word(w_West), Space, Word(w_and), Space, Word(w_East), Colon, Space>>
    \o NumberFirstText
\* "West: 120 impressions, 30 clicks"
OneRegionText == <<Word(w_West), Colon, Space>> \o NumberFirstText

RerunTxtLists ==
    { <<>>,
      <<TextFile("d.txt", ".txt", "txt", NumberFirstText)>>,
      <<TextFile("d.txt", ".txt", "txt", OneRegionText)>>,
      <<TextFile("d.txt", ".txt", "txt", TwoRegionsText)>>,
      <<TextFile("d.txt", ".txt", "txt", TwoRegionsText),
        TextFile("e.txt", ".txt", "txt", TwoRegionsText)>> }

RerunUploads ==
    {Directory(csv, <<>>, txt, <<>>, <<>>, 0) : csv \in CsvLists, txt \in RerunTxtLists}

RerunInit ==
    /\ NormIdle /\ MergeIdle /\ FnIdle /\ ExtractIdle /\ RunIdle /\ OwnIdle
    /\ set_order \in SetOrders
    /\ first_run = <<>>
    /\ ppc = "upload"
    /\ upload \in RerunUploads
    /\ structured_df = <<>>
    /\ unstructured_df = <<>>
    /\ merged_df = <<>>
    /\ ingested = <<>>
    /\ ingested_file = <<>>
    /\ transformed = <<>>
    /\ transformed_file = <<>>
    /\ kpis = <<>>

\* the first run is over; the second starts on the same directory, which
\* now holds the parquet files that the first run wrote
Rerun ==
    /\ ppc \in {"kpis", "failed"}
    /\ first_run = <<>>
    /\ first_run' = [outcome |-> ppc, set_order |-> set_order,
                     ingested_file |-> ingested_file,
                     transformed_file |-> transformed_file, kpis |-> kpis]
    /\ set_order' \in SetOrders
    /\ upload' = [upload EXCEPT !.other = @ + (IF ingested_file = <<>> THEN 0 ELSE 1)
                                            + (IF transformed_file = <<>> THEN 0 ELSE 1)]
    /\ ppc' = "upload"
    /\ structured_df' = <<>>
    /\ unstructured_df' = <<>>
    /\ merged_df' = <<>>
    /\ ingested' = <<>>
    /\ ingested_file' = <<>>
    /\ transformed' = <<>>
    /\ transformed_file' = <<>>
    /\ kpis' = <<>>
    /\ UNCHANGED <<normVars, mergeVars, fnVars, extractVars, runVars, ownVars>>

RerunNext == Ingest \/ Transform \/ ComputeKpis \/ Rerun

SpecRerun == RerunInit /\ [][RerunNext]_vars

\* C17: the core is re-runnable and deterministic on the regex path.  A
\* second run of ingest_data, transform_data and compute_kpis on the same
\* upload directory, after the first has written its parquet files, in
\* the same or in a fresh process, ends as the first did, with the same
\* ingested table, the same transformed table and the same KPI Bundle,
\* the <class>_list columns included.
C17_RerunGivesSameTables ==
    (first_run # <<>> /\ ppc \in {"kpis", "failed"}) =>
        /\ ppc = first_run.outcome
        /\ ingested_file = first_run.ingested_file
        /\ transformed_file = first_run.transformed_file
        /\ kpis = first_run.kpis

\* C18: for every numeric column compute_period_comparison reports a
\* change of 100 when the period-1 total is zero and the period-2 total
\* positive, of 0 when both totals are zero, and of (p2 - p1) / p1 * 100
\* for every other pair of totals with p1 # 0, a negative period-1 total
\* included; the values are those reported, in hundredths.
C18_ChangePctFormula ==
    (fpc = "done" /\ DOMAIN comparisons # {}) =>
        LET p1 == comparisons[<<col_spend, "period1_total">>]
            p2 == comparisons[<<col_spend, "period2_total">>]
            pct == comparisons[<<col_spend, "period_change_pct">>]
        IN  /\ (p1 = 0 /\ p2 > 0) => pct = Round2(100, 1)
            /\ (p1 = 0 /\ p2 = 0) => pct = 0
            /\ p1 # 0 => pct = Round2((p2 - p1) * 100, p1)

\* the candidate key names that every table of the list holds, in the
\* order of the candidate list
SharedCandidates(tables) ==
    SelectSeq(key_candidates,
              LAMBDA c_ : \A i \in 1..Len(tables) : c_ \in ColSet(tables[i]))

\* C19: merge_dataframes takes the join path exactly when a candidate key
\* name is a column of every input table; the merge keys are then all such
\* names, for every join of the chain: each is one column of the result,
\* and the key tuples of the result are those of all the inputs.
\* Otherwise it concatenates.  No table: it fails; one table: that table
\* comes back unchanged.
C19_JoinPathOnSharedCandidates ==
    mpc = "done" =>
        /\ Len(dfs) = 0 => merge_result = Raise("ValueError: No DataFrames to merge")
        /\ Len(dfs) = 1 => merge_result = dfs[1] /\ merge_log = ""
        /\ (Len(dfs) >= 2 /\ SharedCandidates(dfs) # <<>>) =>
              /\ merge_log = "Merged DataFrames on keys"
              /\ \A c_ \in Range(SharedCandidates(dfs)) :
                    Cardinality({j \in 1..NCols(merge_result) :
                                    merge_result.cols[j] = c_}) = 1
              /\ KeysIn(merge_result, SharedCandidates(dfs))
                    = UNION {KeysIn(dfs[i], SharedCandidates(dfs)) : i \in 1..Len(dfs)}
        /\ (Len(dfs) >= 2 /\ SharedCandidates(dfs) = <<>>) =>
              /\ merge_log = "Concatenated DataFrames (no common keys found)"
              /\ merge_result = pd_concat(dfs)

\* two tables that share the candidates id and date, each with a row whose
\* key the other lacks, have been joined on both
C19_Witness ==
    /\ mpc = "done"
    /\ Len(dfs) = 2
    /\ SharedCandidates(dfs) = <<col_id, col_date>>
    /\ merge_log = "Merged DataFrames on keys"
    /\ KeysIn(dfs[1], SharedCandidates(dfs)) # KeysIn(dfs[2], SharedCandidates(dfs))
    /\ NRows(merge_result) > NRows(dfs[1])

\* the first table of the list that holds the column c_
EarliestWith(tables, c_) ==
    CHOOSE i \in 1..Len(tables) :
        c_ \in ColSet(tables[i]) /\ \A j \in 1..(i - 1) : c_ \notin ColSet(tables[j])

\* the cells of column c_ that are not missing, each with the key of its row
KeyedCells(t, keys, c_) ==
    {<<KeyOf(t, t.rows[r], keys), t.rows[r][Idx(t, c_)]>> :
        r \in {q \in 1..Len(t.rows) : t.rows[q][Idx(t, c_)] # NaN}}

\* C20: on the join path every column of every input table, whatever its
\* name, names ending in "_dup" included, is one column of the result; a
\* non-key name that several tables hold is one column with the values of
\* the left-hand (earliest) table, the later duplicates being dropped.
C20_LeftWinsAndColumnsKept ==
    (mpc = "done" /\ Len(dfs) >= 2 /\ SharedCandidates(dfs) # <<>>) =>
        \A i \in 1..Len(dfs) :
            \A c_ \in ColSet(dfs[i]) \ Range(SharedCandidates(dfs)) :
                /\ Cardinality({j \in 1..NCols(merge_result) :
                                    merge_result.cols[j] = c_}) = 1
                /\ KeyedCells(merge_result, SharedCandidates(dfs), c_)
                     = KeyedCells(dfs[EarliestWith(dfs, c_)], SharedCandidates(dfs), c_)

(***************************************************************************)
(* SpecCombine: merge_structured_and_unstructured on a structured and an   *)
(* unstructured table (unstructured.py:450-482).  The structured table is  *)
(* empty, holds labels and no row, or holds up to MaxCombineRows rows; its *)
(* labels are all its own, or it shares one with the unstructured table,   *)
(* holds data_source_type already, or holds a label twice (two raw labels  *)
(* that normalize alike, ingest.py:234).                                   *)
(***************************************************************************)
MaxCombineRows == 2

CombineSchemas ==
    { <<col_date, col_impressions>>,
      <<col_impressions, col_data_source_type>>,
      <<col_source_file, col_impressions>>,
      <<col_spend, col_spend>>,
      <<col_clicks>> }

TextSchemas ==
    { <<col_source_file, col_extraction_method>>,
      <<col_source_file, col_extraction_method,
        col_impressions \o suffix_total, col_impressions \o suffix_count>> }

\* table i on the labels cs with n rows: 10 * i + r in row r
CombineTable(i, cs, n) ==
    [cols   |-> cs,
     dtypes |-> [j \in 1..Len(cs) |-> "num"],
     rows   |-> [r \in 1..n |-> [j \in 1..Len(cs) |-> Val(10 * i + r)]]]

CombineInit ==
    /\ PipeAlone
    /\ ppc = "tables"
    /\ upload = <<>>
    /\ structured_df \in {EmptyFrame}
            \cup {CombineTable(1, cs, n) : cs \in CombineSchemas, n \in 0..MaxCombineRows}
    /\ unstructured_df \in {EmptyFrame}
            \cup {CombineTable(2, cs, n) : cs \in TextSchemas, n \in 0..MaxCombineRows}
    /\ merged_df = <<>>
    /\ ingested = <<>>
    /\ ingested_file = <<>>
    /\ transformed = <<>>
    /\ transformed_file = <<>>
    /\ kpis = <<>>

\* merged_df = merge_structured_and_unstructured(structured_df, unstructured_df)
Combine ==
    /\ ppc = "tables"
    /\ merged_df' = merge_structured_and_unstructured(structured_df, unstructured_df)
    /\ ppc' = "combined"
    /\ UNCHANGED <<upload, structured_df, unstructured_df, ingested, ingested_file,
                   transformed, transformed_file, kpis, notPipe>>

SpecCombine == CombineInit /\ [][Combine]_vars

\* rows first..last of the combined table carry the tag and hold no value
\* in a column that their source table has not
RowsOf(t, first, last, source, tag) ==
    \A r \in first..last :
        /\ t.rows[r][Idx(t, col_data_source_type)] = Text(tag)
        /\ \A j \in 1..NCols(t) :
              t.cols[j] \notin ColSet(source) \cup {col_data_source_type}
                  => t.rows[r][j] = NaN

\* C21: merge_structured_and_unstructured returns the other table as it is
\* when a side is empty; otherwise the result holds the rows of both, on
\* the union of the columns and data_source_type, each row tagged by its
\* origin and missing in the columns its source has not.
C21_CombineTagsAndConcatenates ==
    ppc = "combined" =>
        IF IsEmpty(unstructured_df) THEN merged_df = structured_df
        ELSE IF IsEmpty(structured_df) THEN merged_df = unstructured_df
        ELSE /\ ~IsRaise(merged_df)
             /\ NRows(merged_df) = NRows(structured_df) + NRows(unstructured_df)
             /\ ColSet(merged_df) = ColSet(structured_df) \cup ColSet(unstructured_df)
                                        \cup {col_data_source_type}
             /\ RowsOf(merged_df, 1, NRows(structured_df), structured_df, "structured")
             /\ RowsOf(merged_df, NRows(structured_df) + 1, NRows(merged_df),
                       unstructured_df, "unstructured")

\* the metrics of an Extraction Result as a list of [name, ...] entries
MetricItems(extracted_data) == GetDict(extracted_data, "metrics").items

\* the one cell of the column name of the row
RowCell(t, name) == t.rows[1][Idx(t, name)]

\* C22: convert_unstructured_to_dataframe turns one Extraction Result into
\* exactly one row; a scalar metric is a column of its own name, and every
\* non-empty metric list, the lists of the regex path included, is a
\* column <name>_total and a column <name>_count that holds its length,
\* the total of a list of numbers being their sum.
C22_EveryMetricInTheRow ==
    xpc = "converted" =>
        /\ ~IsRaise(row_df)
        /\ NRows(row_df) = 1
        /\ \A i \in 1..Len(MetricItems(extract_result)) :
              LET m == MetricItems(extract_result)[i]
              IN  IF "scalar" \in DOMAIN m
                  THEN m.name \in ColSet(row_df) /\ RowCell(row_df, m.name) = Val(m.scalar)
                  ELSE m.values # <<>> =>
                        /\ m.name \o suffix_total \in ColSet(row_df)
                        /\ m.name \o suffix_count \in ColSet(row_df)
                        /\ RowCell(row_df, m.name \o suffix_count) = Val(Len(m.values))
                        /\ m.numeric =>
                              RowCell(row_df, m.name \o suffix_total) = Val(SumSeq(m.values))

(***************************************************************************)
(* SpecOwn: the table objects of one run of ingest_data and                *)
(* transform_data.  A name of the code is bound to an object; a function   *)
(* that returns its argument returns the same object, pd.merge, pd.concat, *)
(* DataFrame.copy and the readers make a new one, and an assignment to     *)
(* df.columns changes the object it is made on.                            *)
(***************************************************************************)
NoRefs ==
    [files |-> <<>>, from_merge |-> 0, structured_df |-> 0, unstructured_df |-> 0,
     from_combine |-> 0, merged_df |-> 0, loaded |-> 0, parsed |-> 0, filled |-> 0,
     derived |-> 0]

\* a.csv: "Total Spend" and no other column
RawSpendCsv ==
    CsvFile("a.csv", CsvTable(<<col_total_spend_raw>>, {}, << <<Val(100)>> >>))

OwnCsvLists ==
    { <<>>,
      <<ImpressionsCsv(<<1>>, <<100>>)>>,
      <<ImpressionsCsv(<<>>, <<>>)>>,
      <<RawSpendCsv>>,
      <<TwoSpendsCsv>>,
      <<ImpressionsCsv(<<1>>, <<100>>), DailyCsv("b.csv", col_visits, 1)>>,
      <<SpendCsv("a.csv", col_total_spend_raw), SpendCsv("b.csv", col_total_spend)>>,
      <<ImpressionsCsv(<<1>>, <<100>>), UnreadableCsv("b.csv")>> }

OwnUploads ==
    {Directory(csv, <<>>, txt, <<>>, <<>>, 0) :
        csv \in OwnCsvLists,
        txt \in {<<>>, <<TextFile("d.txt", ".txt", "txt", SpecText)>>,
                 <<UnreadableFile("d.txt", ".txt", "txt")>>}}

OwnInit ==
    /\ OwnAlone
    /\ opc = "upload"
    /\ own_dir \in OwnUploads
    /\ heap = <<>>
    /\ born = <<>>
    /\ ref = NoRefs

\* a new object that holds t is made and bound to name; the run goes to pc
Alloc(t, name, pc) ==
    /\ heap' = Append(heap, t)
    /\ born' = Append(born, t)
    /\ ref' = [ref EXCEPT ![name] = Len(heap) + 1]
    /\ opc' = pc

\* the same object is bound to name as well
Alias(id, name, pc) ==
    /\ ref' = [ref EXCEPT ![name] = id]
    /\ opc' = pc
    /\ UNCHANGED <<heap, born>>

OwnFails ==
    /\ opc' = "failed"
    /\ UNCHANGED <<heap, born, ref>>

\* the tables named by the ids
Objects(ids) == [i \in 1..Len(ids) |-> heap[ids[i]]]

\* the two loops over the structured files: every reader returns a new
\* object                                                (ingest.py:199-227)
OwnRead ==
    /\ opc = "upload"
    /\ \E read \in {ReadAll(own_dir.json, "json",
                              ReadAll(own_dir.csv, "csv",
                                      [structured_dfs |-> <<>>, file_stats |-> <<>>]))} :
          IF IsRaise(read) THEN OwnFails
          ELSE /\ heap' = read.structured_dfs
               /\ born' = read.structured_dfs
               /\ ref' = [ref EXCEPT !.files = [i \in 1..Len(read.structured_dfs) |-> i]]
               /\ opc' = "read"
    /\ UNCHANGED <<own_dir, notOwn>>

\* structured_df = merge_dataframes(structured_dfs), or pd.DataFrame(): with
\* one table merge_dataframes returns dfs[0]        (ingest.py:125-126, 230-237)
OwnMergeStructured ==
    /\ opc = "read"
    /\ IF ref.files = <<>> THEN Alloc(EmptyFrame, "structured_df", "structured")
       ELSE \E m \in {merge_dataframes(Objects(ref.files))} :
               IF IsRaise(m) THEN OwnFails
               ELSE IF Len(ref.files) = 1
               THEN Alias(ref.files[1], "from_merge", "merged_structured")
               ELSE Alloc(m, "from_merge", "merged_structured")
    /\ UNCHANGED <<own_dir, notOwn>>

\* structured_df.columns = [normalize_column_name(col) ...]: the labels of
\* the object that merge_dataframes returned            (ingest.py:233-234)
OwnRenameStructured ==
    /\ opc = "merged_structured"
    /\ heap' = [heap EXCEPT ![ref.from_merge] = NormalizeColumns(@)]
    /\ ref' = [ref EXCEPT !.structured_df = ref.from_merge]
    /\ opc' = "structured"
    /\ UNCHANGED <<born, own_dir, notOwn>>

\* unstructured_df = pd.DataFrame(), then the table that
\* process_unstructured_files returns; the check at 273  (ingest.py:251-274)
OwnProcess ==
    /\ opc = "structured"
    /\ \E u_df \in {IF own_dir.txt \o own_dir.pdf \o own_dir.md # <<>>
                     THEN process_unstructured_files(
                              own_dir.txt \o own_dir.pdf \o own_dir.md).combined_df
                     ELSE EmptyFrame} :
          Alloc(u_df, "unstructured_df",
                IF no_processable_files(heap[ref.structured_df], u_df)
                THEN "failed" ELSE "processed")
    /\ UNCHANGED <<own_dir, notOwn>>

\* merge_structured_and_unstructured returns one of its arguments when the
\* other is empty, else the table of pd.concat  (unstructured.py:464-479)
OwnCombine ==
    /\ opc = "processed"
    /\ \E m \in {merge_structured_and_unstructured(heap[ref.structured_df],
                                                     heap[ref.unstructured_df])} :
          IF IsRaise(m) THEN OwnFails
          ELSE IF IsEmpty(heap[ref.unstructured_df])
          THEN Alias(ref.structured_df, "from_combine", "combined")
          ELSE IF IsEmpty(heap[ref.structured_df])
          THEN Alias(ref.unstructured_df, "from_combine", "combined")
          ELSE Alloc(m, "from_combine", "combined")
    /\ UNCHANGED <<own_dir, notOwn>>

\* merged_df.columns = [normalize_column_name(col) ...], to_parquet
\*                                                      (ingest.py:279-284)
OwnRenameMerged ==
    /\ opc = "combined"
    /\ heap' = [heap EXCEPT ![ref.from_combine] = NormalizeColumns(@)]
    /\ ref' = [ref EXCEPT !.merged_df = ref.from_combine]
    /\ opc' = IF IsRaise(to_parquet(NormalizeColumns(heap[ref.from_combine])))
              THEN "failed" ELSE "ingested"
    /\ UNCHANGED <<born, own_dir, notOwn>>

\* df = pd.read_parquet(data_path)                       (transform.py:331)
OwnLoad ==
    /\ opc = "ingested"
    /\ Alloc(heap[ref.merged_df], "loaded", "loaded")
    /\ UNCHANGED <<own_dir, notOwn>>

\* parse_datetime_columns: df = df.copy(), the columns are set on the copy
\*                                                  (transform.py:76, 336-337)
OwnParse ==
    /\ opc = "loaded"
    /\ Alloc(parse_datetime_columns(heap[ref.loaded],
                                    detect_datetime_columns(heap[ref.loaded])),
             "parsed", "parsed")
    /\ UNCHANGED <<own_dir, notOwn>>

\* handle_missing_values: df = df.copy()              (transform.py:99, 341)
OwnFill ==
    /\ opc = "parsed"
    /\ Alloc(handle_missing_values(heap[ref.parsed]), "filled", "filled")
    /\ UNCHANGED <<own_dir, notOwn>>

\* compute_derived_metrics: df = df.copy()           (transform.py:144, 345)
OwnDerive ==
    /\ opc = "filled"
    /\ Alloc(compute_derived_metrics(heap[ref.filled]), "derived", "derived")
    /\ UNCHANGED <<own_dir, notOwn>>

OwnNext ==
    \/ OwnRead \/ OwnMergeStructured \/ OwnRenameStructured \/ OwnProcess
    \/ OwnCombine \/ OwnRenameMerged \/ OwnLoad \/ OwnParse \/ OwnFill \/ OwnDerive

SpecOwn == OwnInit /\ [][OwnNext]_vars

\* C23: no stage changes a table object that an earlier stage made.  The
\* renaming of the columns in ingest_data leaves the objects that the
\* readers returned, and the object that merge_dataframes returned, with
\* the labels they were returned with, also for a single file and when
\* one side of the last merge is empty; the arguments of
\* parse_datetime_columns, handle_missing_values and
\* compute_derived_metrics stay as they were handed over.
C23_CopyOnTransform ==
    opc \notin {"idle", "upload"} =>
        /\ \A i \in 1..Len(ref.files) : heap[ref.files[i]].cols = born[ref.files[i]].cols
        /\ ref.from_merge # 0 => heap[ref.from_merge].cols = born[ref.from_merge].cols
        /\ \A name \in {"loaded", "parsed", "filled"} :
              ref[name] # 0 => heap[ref[name]] = born[ref[name]]

\* the records of files_processed for the unstructured files
UnstructuredRecords ==
    SelectSeq(ingested.files_processed, LAMBDA x : x.category = "unstructured")

\* the names of the unstructured files that the summary holds an error for
RecordedFailures ==
    IF ingested.unstructured_files_count = 0 THEN {}
    ELSE {ingested.unstructured_summary.errors[i].file :
            i \in 1..Len(ingested.unstructured_summary.errors)}

\* C24: no silent data loss.  Every unstructured file that gave no row is
\* held in the errors of the ingestion result, no record of files_processed
\* shows a failed unstructured file with a row, and every (category,
\* metric) pair of identify_top_performers is in the KPI Bundle.
C24_NoSilentDataLoss ==
    /\ IngestSucceeded =>
          /\ NRows(unstructured_df) + Cardinality(RecordedFailures) = UnstructuredFiles
          /\ \A i \in 1..Len(UnstructuredRecords) :
                UnstructuredRecords[i].filename \in RecordedFailures
                    => UnstructuredRecords[i].rows = 0
    /\ (ppc = "kpis" /\ ~NoValidDate(transformed_file)) =>
          \A cat_col \in Range(CategoricalCols(transformed_file)) :
              Cardinality(Range(DropNa(Column(transformed_file, cat_col)))) > 1 =>
                  \A metric \in Range(metric_cols) \cap ColSet(transformed_file) :
                      <<cat_col, metric>> \in DOMAIN kpis.top_performers

(***************************************************************************)
(* SpecFill: handle_missing_values on tables of two columns, the first a   *)
(* number, datetime or text column and the second a text column.           *)
(***************************************************************************)
MaxFillRows == 3

FillCells(dtype) ==
    IF dtype = "num" THEN {NaN, Val(1), Val(2), Val(5)}
    ELSE IF dtype = "datetime" THEN {NaN, Val(1), Val(3)}
    ELSE {NaN, Text("regex"), Text("structured")}

FillFirstCol(dtype) ==
    IF dtype = "num" THEN col_spend
    ELSE IF dtype = "datetime" THEN col_date
    ELSE col_region

FillInit ==
    /\ FnAlone
    /\ fpc = "input"
    /\ \E dtype \in {"num", "datetime", "object"}, n \in 1..MaxFillRows :
         \E first \in [1..n -> FillCells(dtype)],
            second \in [1..n -> {NaN, Text("regex")}] :
            df = [cols   |-> <<FillFirstCol(dtype), col_source_file>>,
                  dtypes |-> <<dtype, "object">>,
                  rows   |-> [r \in 1..n |-> <<first[r], second[r]>>]]
    /\ comparisons = <<>>
    /\ anomalies = <<>>
    /\ derived_df = <<>>

FillCall ==
    /\ fpc = "input"
    /\ derived_df' = handle_missing_values(df)
    /\ fpc' = "filled"
    /\ UNCHANGED <<df, comparisons, anomalies, notFn>>

SpecFill == FillInit /\ [][FillCall]_vars

\* the k-th smallest of the numbers of the cells that are not missing
KthSmallest(cells, k) ==
    LET v == DropNa(cells)
    IN  CHOOSE a \in {v[i][1] : i \in 1..Len(v)} :
            /\ Cardinality({i \in 1..Len(v) : v[i][1] < a}) < k
            /\ Cardinality({i \in 1..Len(v) : v[i][1] <= a}) >= k

\* twice the number of a filled cell
Twice(x) == IF Len(x) = 2 THEN x[2] ELSE 2 * x[1]

\* x is the median of the cells that are not missing, of which there is
\* one at least
IsMedianOf(x, cells) ==
    LET n == Len(DropNa(cells))
    IN  /\ n > 0
        /\ x # NaN
        /\ Twice(x) = KthSmallest(cells, (n + 1) \div 2)
                         + KthSmallest(cells, n \div 2 + 1)

\* x is what forward-fill then backward-fill puts in row r
IsCarriedTo(x, cells, r) ==
    IF \E j \in 1..r : cells[j] # NaN
    THEN \E j \in 1..r : /\ cells[j] # NaN
                          /\ \A k \in (j + 1)..r : cells[k] = NaN
                          /\ x = cells[j]
    ELSE IF \E j \in r..Len(cells) : cells[j] # NaN
    THEN \E j \in r..Len(cells) : /\ cells[j] # NaN
                                   /\ \A k \in r..(j - 1) : cells[k] = NaN
                                   /\ x = cells[j]
    ELSE x = NaN

\* x is the mode of the cells, the first in sorted order among the most
\* frequent ones, or "Unknown" when every cell is missing
IsModeOf(x, cells) ==
    LET count(y) == Cardinality({i \in 1..Len(cells) : cells[i] = y})
    IN  IF \A i \in 1..Len(cells) : cells[i] = NaN THEN x = Text("Unknown")
        ELSE /\ x # NaN
             /\ count(x) > 0
             /\ \A i \in 1..Len(cells) :
                    cells[i] # NaN =>
                        \/ count(cells[i]) < count(x)
                        \/ cells[i] = x
                        \/ (count(cells[i]) = count(x) /\ ObjectLess(x, cells[i]))

\* the result of handle_missing_values as claimed, where empty_median(x)
\* says what a missing cell x of a number column with no other cell is
FilledAsClaimed(empty_median(_)) ==
    fpc = "filled" =>
        /\ derived_df.cols = df.cols
        /\ derived_df.dtypes = df.dtypes
        /\ NRows(derived_df) = NRows(df)
        /\ \A j \in 1..NCols(df) :
              LET before == [r \in 1..NRows(df) |-> df.rows[r][j]]
                  after == [r \in 1..NRows(df) |-> derived_df.rows[r][j]]
              IN  \A r \in 1..NRows(df) :
                     IF before[r] # NaN THEN after[r] = before[r]
                     ELSE IF df.dtypes[j] = "num"
                     THEN IF DropNa(before) = <<>> THEN empty_median(after[r])
                          ELSE IsMedianOf(after[r], before)
                     ELSE IF df.dtypes[j] = "datetime" THEN IsCarriedTo(after[r], before, r)
                     ELSE IsModeOf(after[r], before)

\* C25 as stated: handle_missing_values keeps the columns and the cells
\* that are not missing, leaves a column without missing cells as it is,
\* and fills EVERY missing cell of a number column with the median of the
\* cells of the column that are not missing, of a datetime column by
\* forward-fill then backward-fill, and of a text column with the mode, or
\* with "Unknown" when every cell is missing.
C25_EveryMissingCellFilled ==
    FilledAsClaimed(LAMBDA x : IsMedianOf(x, <<>>))

\* C25 amended: as above, but a number column whose cells are all missing
\* has no median and stays all missing.
C25_MissingValuesFilled ==
    FilledAsClaimed(LAMBDA x : x = NaN)

\* C25 witness: a number column was filled with a median between two of its
\* cells, a datetime column was filled backward, and a text column with no
\* cell was filled with "Unknown"
C25_Witness ==
    /\ fpc = "filled"
    /\ \E r \in 1..NRows(df) :
          /\ df.rows[r][1] = NaN
          /\ \/ derived_df.rows[r][1] = Half(3)
             \/ (df.dtypes[1] = "datetime" /\ r = 1 /\ derived_df.rows[r][1] = Val(3))
          /\ df.rows[r][2] = NaN
          /\ derived_df.rows[r][2] \in {Text("Unknown"), Text("regex")}

(***************************************************************************)
(* SpecInngest: one report generation under the Inngest orchestrator:      *)
(* generate_report of main.py sends the event and report_pipeline runs the *)
(* steps.  Inngest calls the function once for every step that is to run:  *)
(* step.run hands the result of a new step back to the engine and ends the *)
(* call, and the next call runs the body from its first statement with the *)
(* results of the finished steps filled in.  After an attempt that raised  *)
(* the function is called again, up to retries times.                      *)
(***************************************************************************)
retries == 2

\* update_report_status: the entry is changed only if reports.json holds it
update_report_status(m_, report_id, status, file_path, error) ==
    IF report_id \notin DOMAIN m_ THEN m_
    ELSE [m_ EXCEPT ![report_id] =
            [@ EXCEPT !.status = status,
                      !.file_path = IF file_path # <<>> THEN file_path ELSE @,
                      !.error = IF error # "" THEN error ELSE @,
                      !.completed_at = IF status = "completed" THEN <<"now">> ELSE @]]

\* generate_report: inngest_client.send raises; the handler saves its copy
\* of the metadata with status failed               (main.py:226-233)
SendFails(r) ==
    /\ rpc[r] = "queued"
    /\ attempt[r] = 0
    /\ reports' = WithEntry(metadata[r], r,
                            [NewEntry(r) EXCEPT !.status = "failed", !.error = "send"])
    /\ rpc' = [rpc EXCEPT ![r] = "done"]
    /\ UNCHANGED <<metadata, run_upload, run_outcome, files_written, attempt, notRun>>

\* report_pipeline is called for the event, or called again after an
\* attempt that raised: status processing           (inngest_client.py:98-100);
\* the calls between steps 1 to 6 store the same status once more
StartAttempt(r) ==
    /\ rpc[r] \in {"queued", "retry"}
    /\ reports' = update_report_status(reports, r, "processing", <<>>, "")
    /\ rpc' = [rpc EXCEPT ![r] = "called"]
    /\ UNCHANGED <<metadata, run_upload, run_outcome, files_written, attempt, notRun>>

\* step 7, save_output: status completed            (inngest_client.py:179-186, 222-228)
SaveOutput(r) ==
    /\ rpc[r] = "finishing"
    /\ reports' = update_report_status(reports, r, "completed",
                                       <<"reports", r, "<report_id>.pdf">>, "")
    /\ rpc' = [rpc EXCEPT ![r] = "saved"]
    /\ UNCHANGED <<metadata, run_upload, run_outcome, files_written, attempt, notRun>>

\* the call after step 7: the body runs from its first statement, every
\* step.run gives its stored result, and the function returns
\*                                                   (inngest_client.py:98-100, 190-198)
ReturnResult(r) ==
    /\ rpc[r] = "saved"
    /\ reports' = update_report_status(reports, r, "processing", <<>>, "")
    /\ rpc' = [rpc EXCEPT ![r] = "done"]
    /\ UNCHANGED <<metadata, run_upload, run_outcome, files_written, attempt, notRun>>

\* the except clause: status failed, and the exception is raised again, so
\* that the function is retried up to retries times  (inngest_client.py:200-203, 72)
AttemptFails(r) ==
    /\ rpc[r] = "failing"
    /\ reports' = update_report_status(reports, r, "failed", <<>>, run_outcome[r].error)
    /\ attempt' = [attempt EXCEPT ![r] = @ + 1]
    /\ rpc' = [rpc EXCEPT ![r] = IF attempt[r] < retries THEN "retry" ELSE "done"]
    /\ UNCHANGED <<metadata, run_upload, run_outcome, files_written, notRun>>

InngestNext ==
    \E r \in Runs :
        \/ GenerateLoad(r) \/ GenerateSave(r) \/ SendFails(r) \/ StartAttempt(r)
        \/ RunSteps(r) \/ SaveOutput(r) \/ ReturnResult(r) \/ AttemptFails(r)

SpecInngest == RunInit(1) /\ [][InngestNext]_vars

\* the changes of a stored status that the claim allows
StatusSteps ==
    { <<"none", "pending">>, <<"pending", "processing">>,
      <<"processing", "completed">>, <<"pending", "failed">>,
      <<"processing", "failed">> }

\* C26: the final status of a report is stable.  A stored status
\* 'completed' or 'failed' is never changed again, and a status changes
\* only from pending to processing, from processing to completed, and from
\* pending or processing to failed.
C26_FinalStatusStable ==
    [][\A r \in Runs :
          \/ StatusOf(r)' = StatusOf(r)
          \/ <<StatusOf(r), StatusOf(r)'>> \in StatusSteps]_vars

\* C27: a completed report has a file path and a completion time, a report
\* of any other status has no completion time.
C27_CompletedHasPathAndTime ==
    \A r \in DOMAIN reports :
        /\ reports[r].status = "completed" =>
              (reports[r].file_path # <<>> /\ reports[r].completed_at # <<>>)
        /\ reports[r].status # "completed" => reports[r].completed_at = <<>>

(***************************************************************************)
(* SpecConcurrent: two report generations of main_simple.py at one time;   *)
(* the event loop and the worker threads are scheduled, the service's      *)
(* answer arrives, the client's timer runs.                                *)
(***************************************************************************)
RunFair(r) ==
    /\ WF_vars(GenerateLoad(r)) /\ WF_vars(GenerateSave(r))
    /\ WF_vars(PipelineLoad(r)) /\ WF_vars(PipelineSave(r))
    /\ WF_vars(StartIngest(r))
    /\ WF_vars(CallReturns(r)) /\ WF_vars(CallTimesOut(r))
    /\ WF_rpc(StepsDone(r))
    /\ WF_vars(FinalLoad(r)) /\ WF_vars(FinalSave(r))

SpecConcurrent == RunInit(2) /\ [][RunNext]_vars /\ \A r \in Runs : RunFair(r)

\* C28: every report that generate_report registered reaches the status
\* 'completed' or 'failed' in the end, also when two reports are generated
\* at one time: no report stays 'pending' or 'processing' forever.
C28_EveryReportEnds ==
    \A r \in Runs :
        (rpc[r] = "queued") ~> (StatusOf(r) \in {"completed", "failed"})

\* the number columns that exactly one CSV file of the upload holds, under
\* a label that normalization leaves as it is: <<file, label>>
InputMetrics ==
    {<<i, c_>> \in (1..Len(upload.csv)) \X UNION {ColSet(upload.csv[k].table) :
                                                   k \in 1..Len(upload.csv)} :
        /\ c_ \in ColSet(upload.csv[i].table)
        /\ DtypeOf(upload.csv[i].table, c_) = "num"
        /\ normalize_column_name(c_) = c_
        /\ \A k \in 1..Len(upload.csv) : c_ \in ColSet(upload.csv[k].table) => k = i}

\* C29: the KPI totals reflect only input data.  At the end of the pipeline
\* basic_metrics total_<column> of a number column of a structured file is
\* the sum of the cells of that column in the file that are not missing.
C29_TotalsReflectInputOnly ==
    (ppc = "kpis" /\ ~NoValidDate(transformed_file)) =>
        \A m \in InputMetrics :
            LET total == SumCells(Column(upload.csv[m[1]].table, m[2]))
            IN  /\ (prefix_total \o m[2]) \in DOMAIN kpis.basic_metrics
                /\ kpis.basic_metrics[prefix_total \o m[2]] =
                      (IF m[2] = col_spend THEN Val(Round2(total, 1)) ELSE Val(total))

\* the two periods of the result pc partition the rows of t, whose dates
\* are the cells dates: every row has a date, on one side of the midpoint,
\* either side holds a row, and the two totals of every number column add
\* up to the total of the column
PeriodsPartition(t, dates, pc) ==
    LET mid == pc[<<NoLabel, "period1_dates">>][2]
    IN  /\ \A r \in 1..NRows(t) : dates[r] # NaN
        /\ \E r \in 1..NRows(t) : dates[r] # NaN /\ dates[r][1] < mid
        /\ \E r \in 1..NRows(t) : dates[r] # NaN /\ dates[r][1] >= mid
        /\ \A c_ \in Range(NumericCols(t)) \ {col_date} :
              pc[<<c_, "period1_total">>] + pc[<<c_, "period2_total">>]
                  = Round2(SumCells(Column(t, c_)), 1)

\* the first datetime column of t spans two days or more
SpansTwoDays(t) ==
    /\ DatetimeCols(t) # <<>>
    /\ ~NoValidDate(t)
    /\ MaxCell(Column(t, DatetimeCols(t)[1])) - MinCell(Column(t, DatetimeCols(t)[1])) >= 2

\* C30: when the dates span two days or more the two periods of the period
\* comparison partition the rows, both hold a row, and period1_total +
\* period2_total is the total of every number column; when the span is
\* under two days, or the table has no datetime column, the result is
\* empty.
C30_PeriodsPartitionRows ==
    ppc \in {"kpis", "failed"} =>
        /\ ~IsRaise(kpis)
        /\ IF SpansTwoDays(transformed_file)
           THEN PeriodsPartition(transformed_file,
                                 Column(transformed_file, DatetimeCols(transformed_file)[1]),
                                 kpis.period_comparison)
           ELSE kpis.period_comparison = <<>>

====
